---------------------------- MODULE Spec2Model ----------------------------
(***************************************************************************)
(* Model of the municipality report generator (json_static_generator).     *)
(*                                                                         *)
(* Python values are modelled as follows.                                  *)
(*   - a dict is a function whose domain is its set of keys; {} is <<>>;   *)
(*   - a number that may be None is a record [none, num, den]: None, or    *)
(*     the exact rational num/den with den > 0 (Python floats are used by  *)
(*     the code only for ratios of integers, which the rational keeps      *)
(*     exact);                                                             *)
(*   - a str that the code slices or parses (a period) is a sequence of    *)
(*     one-character strings;                                              *)
(*   - a call that may raise yields Ok(value) or Raise(kind).              *)
(***************************************************************************)
EXTENDS Integers, Sequences, FiniteSets, TLC

(***************************************************************************)
(* Bounds of the model (not program constants).                            *)
(***************************************************************************)
MaxCommunes == 2          \* municipalities present in the warehouse
MaxPeriodsBack == 9       \* periods that _get_previous_period goes back
\* the largest number of exact ages in a distribution given to
\* process_age_structure
MaxAges == 3

MaxFiles == 2             \* report files given to the JSON utilities

-----------------------------------------------------------------------------
(***************************************************************************)
(* Python values.                                                          *)
(***************************************************************************)
EmptyDict == <<>>

IsEmpty(d) == DOMAIN d = {}

\* a local variable: Bind([v \in {value} |-> body]) is body with v bound to
\* value
Bind(f) == f[CHOOSE v \in DOMAIN f : TRUE]

Has(d, k) == k \in DOMAIN d

\* dict.get(k, default)
Get(d, k, default) == IF k \in DOMAIN d THEN d[k] ELSE default

\* d.get(k1, {}).get(k2, default)
Get2(d, k1, k2, default) == Get(Get(d, k1, EmptyDict), k2, default)

\* d.get(k1, {}).get(k2, {}).get(k3, default)
Get3(d, k1, k2, k3, default) == Get(Get2(d, k1, k2, EmptyDict), k3, default)

None == [none |-> TRUE, num |-> 0, den |-> 1]

Num(n) == [none |-> FALSE, num |-> n, den |-> 1]

Abs(n) == IF n < 0 THEN 0 - n ELSE n

RECURSIVE GCD(_, _)
GCD(a, b) == IF b = 0 THEN a ELSE GCD(b, a % b)

\* the rational n/d (d # 0) in lowest terms with a positive denominator
Rat(n, d) ==
    LET g == GCD(Abs(n), Abs(d))
        s == IF d < 0 THEN 0 - 1 ELSE 1
    IN  [none |-> FALSE, num |-> s * (n \div g), den |-> s * (d \div g)]

IsNone(v) == v.none

\* Python truthiness of a dict-or-None
TruthyDict(d) == d # None /\ DOMAIN d # {}

\* Python truthiness of a number-or-None
Truthy(v) == ~v.none /\ v.num # 0

\* v > k, v < k for a number v that is not None and an integer k
GT(v, k) == v.num > k * v.den
LT(v, k) == v.num < k * v.den
GE(v, k) == v.num >= k * v.den
LE(v, k) == v.num <= k * v.den

\* arithmetic on numbers that are not None
RSub(a, b) == Rat(a.num * b.den - b.num * a.den, a.den * b.den)
RAdd(a, b) == Rat(a.num * b.den + b.num * a.den, a.den * b.den)
RMul(a, b) == Rat(a.num * b.num, a.den * b.den)
RDiv(a, b) == Rat(a.num * b.den, a.den * b.num)

\* The result of a call that may raise: the value returned, or the exception.
Ok(v) == [exc |-> "", val |-> v]

Raise(kind) == [exc |-> kind, val |-> <<>>]

Raised(r) == r.exc # ""

-----------------------------------------------------------------------------
(***************************************************************************)
(* Strings that the code parses: periods.                                  *)
(***************************************************************************)
Digits == <<"0", "1", "2", "3", "4", "5", "6", "7", "8", "9">>

DigitVal(c) == (CHOOSE i \in 1..10 : Digits[i] = c) - 1

\* str.isdigit() on a str of ASCII characters
isdigit(s) == Len(s) > 0 /\ \A i \in 1..Len(s) : \E k \in 1..10 : Digits[k] = s[i]

\* s[a:b] for 0 <= a <= b
Slice(s, a, b) ==
    LET hi == IF b < Len(s) THEN b ELSE Len(s)
    IN  IF a >= hi THEN <<>> ELSE SubSeq(s, a + 1, hi)

\* "c" in s
Contains(s, c) == \E i \in 1..Len(s) : s[i] = c

RECURSIVE DigitsToInt(_)
DigitsToInt(s) ==
    IF Len(s) = 0 THEN 0
    ELSE 10 * DigitsToInt(SubSeq(s, 1, Len(s) - 1)) + DigitVal(s[Len(s)])

\* int(s): the number, or ValueError.  The strings drawn as periods hold no
\* sign, blank or underscore, so int(s) succeeds exactly on digit strings.
PyInt(s) == IF isdigit(s) THEN Ok(DigitsToInt(s)) ELSE Raise("ValueError")

RECURSIVE NatToStr(_)
NatToStr(n) ==
    IF n < 10 THEN <<Digits[n + 1]>>
    ELSE NatToStr(n \div 10) \o <<Digits[(n % 10) + 1]>>

\* str(n) for an int n
PyStr(n) == IF n < 0 THEN <<"-">> \o NatToStr(0 - n) ELSE NatToStr(n)

-----------------------------------------------------------------------------
(***************************************************************************)
(* BaseProcessor: formatting, changes, earlier periods, metadata.          *)
(***************************************************************************)
NUMBER_FORMAT == [decimal_separator |-> ",", thousands_separator |-> ".",
                  decimal_places |-> 2, price_decimal_places |-> 0,
                  percentage_decimal_places |-> 1]

RECURSIVE Pow10(_)
Pow10(k) == IF k = 0 THEN 1 ELSE 10 * Pow10(k - 1)

\* round(|v| * 10^places) to the nearest integer, ties to even
RoundScaled(v, places) ==
    LET n == Abs(v.num) * Pow10(places)
        q == n \div v.den
        r == n % v.den
    IN  IF 2 * r > v.den \/ (2 * r = v.den /\ q % 2 = 1) THEN q + 1 ELSE q

\* the digits of n with "," between groups of three, as "{:,}" writes them
RECURSIVE Grouped(_)
Grouped(n) ==
    IF n < 1000 THEN NatToStr(n)
    ELSE LET low == n % 1000
             pad == IF low < 10 THEN <<"0", "0">> ELSE IF low < 100 THEN <<"0">> ELSE <<>>
         IN  Grouped(n \div 1000) \o <<",">> \o pad \o NatToStr(low)

RECURSIVE Padded(_, _)
Padded(n, width) ==
    IF width = 0 THEN <<>> ELSE Padded(n \div 10, width - 1) \o <<Digits[(n % 10) + 1]>>

\* s.replace(a, b) for one-character a and b
Replace(s, a, b) == [i \in 1..Len(s) |-> IF s[i] = a THEN b ELSE s[i]]

NA == <<"N", "/", "A">>

\* None where the code holds a str or None
NoText == <<>>

format_number(value, decimal_places) ==
    IF IsNone(value) THEN NA
    ELSE Bind([scaled \in {RoundScaled(value, decimal_places)} |->
         Bind([formatted \in {(IF value.num < 0 THEN <<"-">> ELSE <<>>)
              \o Grouped(scaled \div Pow10(decimal_places))
              \o (IF decimal_places = 0 THEN <<>>
                  ELSE <<".">> \o Padded(scaled % Pow10(decimal_places), decimal_places))} |->
         Bind([separated \in {IF NUMBER_FORMAT.thousands_separator # ","
              THEN Replace(formatted, ",", NUMBER_FORMAT.thousands_separator)
              ELSE formatted} |->
                IF NUMBER_FORMAT.decimal_separator # "."
                THEN Replace(separated, ".", NUMBER_FORMAT.decimal_separator)
                ELSE separated])])])

format_percentage(value) ==
    IF IsNone(value) THEN NA
    ELSE format_number(value, NUMBER_FORMAT.percentage_decimal_places) \o <<"%">>

\* a calculate_change that writes no "+" before a change that is not negative
calculate_change_without_plus(current_value, previous_value) ==
    IF IsNone(current_value) \/ IsNone(previous_value) \/ previous_value.num = 0
    THEN <<None, NA>>
    ELSE Bind([change \in {RMul(RDiv(RSub(current_value, previous_value), previous_value),
                                Num(100))} |->
                <<change, format_percentage(change)>>])

\* (change, formatted change)
calculate_change(current_value, previous_value) ==
    IF IsNone(current_value) \/ IsNone(previous_value) \/ previous_value.num = 0
    THEN <<None, NA>>
    ELSE Bind([change \in {RMul(RDiv(RSub(current_value, previous_value), previous_value),
                                Num(100))} |->
                <<change,
                  (IF change.num >= 0 THEN <<"+">> ELSE <<>>) \o format_percentage(change)>>])

\* BaseProcessor.classify_trend; the thresholds are whole numbers of percent
classify_trend(change_percentage, threshold_positive, threshold_negative) ==
    IF IsNone(change_percentage) THEN "unknown"
    ELSE IF GE(change_percentage, threshold_positive) THEN "strong_increase"
    ELSE IF GT(change_percentage, 0) THEN "increase"
    ELSE IF GE(change_percentage, threshold_negative) THEN "stable"
    ELSE IF GE(change_percentage, threshold_negative * 2) THEN "decrease"
    ELSE "strong_decrease"

calculate_avg(total, count) ==
    IF IsNone(total) \/ IsNone(count) \/ count.num = 0 THEN None ELSE RDiv(total, count)

\* the first exception among the results rs (in evaluation order), else ok
FirstRaised(rs, ok) ==
    IF \E i \in 1..Len(rs) : Raised(rs[i])
    THEN rs[CHOOSE i \in 1..Len(rs) : Raised(rs[i]) /\ \A j \in 1..(i - 1) : ~Raised(rs[j])]
    ELSE ok

\* a _get_previous_period that leaves a quarter <= 0 as it is
_get_previous_period_without_borrow(period, num_periods_back) ==
    IF Contains(period, "-") /\ Slice(period, 5, 6) = <<"Q">>
    THEN Ok(PyStr(PyInt(Slice(period, 0, 4)).val - (num_periods_back \div 4))
            \o <<"-", "Q">>
            \o PyStr(PyInt(Slice(period, 6, 7)).val - (num_periods_back % 4)))
    ELSE Ok(PyStr(PyInt(period).val - num_periods_back))

_get_previous_period(period, num_periods_back) ==
    IF Contains(period, "-") /\ Slice(period, 5, 6) = <<"Q">>
    THEN Bind([parsed \in {<<PyInt(Slice(period, 0, 4)), PyInt(Slice(period, 6, 7))>>} |->
            LET year    == parsed[1]
                quarter == parsed[2]
                new_year    == year.val - (num_periods_back \div 4)
                new_quarter == quarter.val - (num_periods_back % 4)
            IN  IF Raised(year) THEN year
                ELSE IF Raised(quarter) THEN quarter
                ELSE IF new_quarter <= 0
                     THEN Ok(PyStr(new_year - 1) \o <<"-", "Q">> \o PyStr(new_quarter + 4))
                     ELSE Ok(PyStr(new_year) \o <<"-", "Q">> \o PyStr(new_quarter))])
    ELSE Bind([y \in {PyInt(period)} |->
            IF Raised(y) THEN y ELSE Ok(PyStr(y.val - num_periods_back))])

DEFAULT_PERIOD ==
    [real_estate_data  |-> <<"2", "0", "2", "4", "-", "Q", "4">>,
     economic_data     |-> <<"2", "0", "2", "3">>,
     demographic_data  |-> <<"2", "0", "2", "3">>,
     tax_data          |-> <<"2", "0", "2", "2">>,
     construction_data |-> <<"2", "0", "2", "4", "-", "Q", "1">>,
     cadastral_data    |-> <<"2", "0", "2", "3">>]

\* str(int(period) - k)
YearsBack(period, k) ==
    Bind([y \in {PyInt(period)} |-> IF Raised(y) THEN y ELSE Ok(PyStr(y.val - k))])

\* datetime.now().strftime("%Y-%m-%d")
get_current_date(today) ==
    Padded(today.year, 4) \o <<"-">> \o Padded(today.month, 2) \o <<"-">>
        \o Padded(today.day, 2)

\* The metadata section.  Of each enriched period the current, previous_year
\* and five_year entries are kept (ten_year and fifteen_year are computed by
\* the same calls and fail on the same inputs); the fixed texts are left out.
create_metadata(commune_data, data_periods, today) ==
    LET re  == Get(data_periods, "real_estate_data", DEFAULT_PERIOD.real_estate_data)
        eco == Get(data_periods, "economic_data", DEFAULT_PERIOD.economic_data)
        dem == Get(data_periods, "demographic_data", DEFAULT_PERIOD.demographic_data)
        tax == Get(data_periods, "tax_data", DEFAULT_PERIOD.tax_data)
        con == Get(data_periods, "construction_data", DEFAULT_PERIOD.construction_data)
    IN  Bind([computed \in {<<_get_previous_period(re, 4), _get_previous_period(re, 20),
               YearsBack(eco, 1), YearsBack(eco, 5),
               YearsBack(dem, 1), YearsBack(dem, 5),
               YearsBack(tax, 1), YearsBack(tax, 5),
               _get_previous_period(con, 4), _get_previous_period(con, 20)>>} |->
                LET entry(p, i) == [current |-> p, previous_year |-> computed[i].val,
                                    five_year |-> computed[i + 1].val]
                IN  FirstRaised(computed,
                        Ok([commune_id   |-> Get(commune_data, "commune_id", "None"),
                            commune_name |-> Get(commune_data, "commune_name", "None"),
                            province     |-> Get(commune_data, "province", "None"),
                            region       |-> Get(commune_data, "region", "None"),
                            version      |-> "1.0",
                            generated_date |-> get_current_date(today),
                            temporal_coverage |->
                                [current_year     |-> today.year,
                                 historical_start |-> 2000,
                                 range_years      |-> today.year - 2000],
                            data_period  |->
                                [real_estate_data  |-> entry(re, 1),
                                 economic_data     |-> entry(eco, 3),
                                 demographic_data  |-> entry(dem, 5),
                                 tax_data          |-> entry(tax, 7),
                                 construction_data |-> entry(con, 9)]]))])

-----------------------------------------------------------------------------
(***************************************************************************)
(* BuildingDevProcessor.  A permit bucket keeps the building and dwelling  *)
(* counts (apartments and houses are copied the same way and left out).    *)
(***************************************************************************)
process_permits_summary(current_data, previous_year_data) ==
    LET total_buildings == Get2(current_data, "total", "buildings", Num(0))
        prev_total_buildings ==
            IF ~IsEmpty(previous_year_data)
            THEN Get2(previous_year_data, "total", "buildings", Num(0)) ELSE Num(0)
        residential_buildings ==
            RAdd(Get3(current_data, "residential", "new_construction", "buildings", Num(0)),
                 Get3(current_data, "residential", "renovation", "buildings", Num(0)))
    IN  [total_permits_ytd |-> total_buildings,
         trend_yoy         |-> calculate_change(total_buildings, prev_total_buildings)[1],
         residential_ratio |-> IF GT(total_buildings, 0)
                               THEN RDiv(residential_buildings, total_buildings)
                               ELSE Num(0)]

process_permits_counts(data) ==
    LET residential_new        == Get2(data, "residential", "new_construction", EmptyDict)
        residential_renovation == Get2(data, "residential", "renovation", EmptyDict)
        non_residential_new    == Get2(data, "non_residential", "new_construction", EmptyDict)
    IN  [residential |->
            [new_construction |-> [buildings |-> Get(residential_new, "buildings", Num(0)),
                                   dwellings |-> Get(residential_new, "dwellings", Num(0))],
             renovation |-> [buildings |-> Get(residential_renovation, "buildings", Num(0)),
                             dwellings |-> Get(residential_renovation, "dwellings", Num(0))]],
         non_residential |->
            [new_construction |-> [buildings |-> Get(non_residential_new, "buildings", Num(0))]]]

process_permits_surface(current_data, previous_year_data, counts_data) ==
    LET total_surface_sqm == Get(current_data, "total_surface_m2", Num(0))
        avg_dwelling_size_sqm == Get(current_data, "avg_surface_per_dwelling_m2", Num(0))
        prev_surface == IF ~IsEmpty(previous_year_data)
                        THEN Get(previous_year_data, "total_surface_m2", Num(0)) ELSE Num(0)
        change == calculate_change(total_surface_sqm, prev_surface)
        dwellings_count == Get3(counts_data, "residential", "new_construction", "dwellings", Num(0))
    IN  [residential_new_construction_sqm |-> total_surface_sqm,
         avg_dwelling_size_sqm |->
            IF ~Truthy(avg_dwelling_size_sqm) /\ GT(dwellings_count, 0)
            THEN RDiv(total_surface_sqm, dwellings_count)
            ELSE avg_dwelling_size_sqm,
         trend_yoy |-> change[1]]

process_permits_volume(current_data, previous_year_data) ==
    LET total_volume_cubic_m == Get(current_data, "total_volume_m3", Num(0))
        prev_volume == IF ~IsEmpty(previous_year_data)
                       THEN Get(previous_year_data, "total_volume_m3", Num(0)) ELSE Num(0)
        change == calculate_change(total_volume_cubic_m, prev_volume)
    IN  [non_residential_new_construction_cubic_m |-> total_volume_cubic_m,
         trend_yoy |-> change[1]]

process_permits(counts_data, surface_data, volume_data) ==
    IF IsEmpty(counts_data) \/ ~Has(counts_data, "current_data") THEN EmptyDict
    ELSE LET current_counts       == Get(counts_data, "current_data", EmptyDict)
             previous_year_counts == Get(counts_data, "previous_year_data", EmptyDict)
             current_surface       == Get(surface_data, "current_data", EmptyDict)
             previous_year_surface == Get(surface_data, "previous_year_data", EmptyDict)
             current_volume        == Get(volume_data, "current_data", EmptyDict)
             previous_year_volume  == Get(volume_data, "previous_year_data", EmptyDict)
         IN  [summary |-> process_permits_summary(current_counts, previous_year_counts),
              counts  |-> process_permits_counts(current_counts),
              surface |-> process_permits_surface(current_surface, previous_year_surface,
                                                  current_counts),
              volume  |-> process_permits_volume(current_volume, previous_year_volume)]

\* The ladder of line 218-225: its first test guards None, the elif tests
\* compare the trend unguarded, so a None trend raises TypeError there.
process_construction_activity(permits_data) ==
    LET trend_yoy == Get2(permits_data, "summary", "trend_yoy", Num(0))
        new_residential_dwellings ==
            Get(Get3(permits_data, "counts", "residential", "new_construction", EmptyDict),
                "dwellings", Num(0))
        half == Rat(1, 2)
    IN  IF ~IsEmpty(permits_data) /\ IsNone(trend_yoy) THEN Raise("TypeError")
        ELSE
        Bind([by_trend \in
                {IF GT(trend_yoy, 20) THEN RAdd(half, Rat(2, 10))
                 ELSE IF GT(trend_yoy, 10) THEN RAdd(half, Rat(1, 10))
                 ELSE IF LT(trend_yoy, 0 - 10) THEN RSub(half, Rat(1, 10))
                 ELSE IF LT(trend_yoy, 0 - 20) THEN RSub(half, Rat(2, 10))
                 ELSE half} |->
        Bind([construction_intensity_index \in
                {IF IsEmpty(permits_data) THEN half
                 ELSE IF GT(new_residential_dwellings, 100) THEN RAdd(by_trend, Rat(1, 10))
                 ELSE IF GT(new_residential_dwellings, 50) THEN RAdd(by_trend, Rat(5, 100))
                 ELSE by_trend} |->
        Bind([residential_units_coming \in
                {IF ~IsEmpty(permits_data) THEN RMul(new_residential_dwellings, Rat(3, 2))
                 ELSE Num(0)} |->
            Ok([construction_intensity_index |-> construction_intensity_index,
                development_phase |->
                    IF RSub(construction_intensity_index, Rat(8, 10)).num > 0
                    THEN "Strong Growth"
                    ELSE IF RSub(construction_intensity_index, Rat(6, 10)).num > 0
                    THEN "Moderate Growth"
                    ELSE IF RSub(construction_intensity_index, Rat(4, 10)).num < 0
                    THEN "Slowdown"
                    ELSE IF RSub(construction_intensity_index, Rat(2, 10)).num < 0
                    THEN "Stagnation"
                    ELSE "Stable",
                supply_pipeline |->
                    [residential_units_coming |-> residential_units_coming,
                     estimated_completion_timeframe |-> "18 months",
                     impact_on_supply |->
                        IF GT(residential_units_coming, 200) THEN "High"
                        ELSE IF LT(residential_units_coming, 50) THEN "Low"
                        ELSE "Medium"]])])])])

BuildingDev_process_data(data, real_estate_data) ==
    Bind([permits_result \in {process_permits(Get(data, "permits_counts", EmptyDict),
                         Get(data, "permits_surface", EmptyDict),
                         Get(data, "permits_volume", EmptyDict))} |->
    Bind([construction_activity_result \in {process_construction_activity(permits_result)} |->
            IF Raised(construction_activity_result) THEN construction_activity_result
            ELSE Ok([permits |-> permits_result,
                     construction_activity |-> construction_activity_result.val])])])

-----------------------------------------------------------------------------
(***************************************************************************)
(* RealEstateProcessor.  A municipality bucket maps a building-type code   *)
(* to its row; of a row the transactions, total price, mean price and      *)
(* median price (p50) are kept.                                            *)
(***************************************************************************)
building_type_mapping == [c \in {"200", "537"} |-> IF c = "200" THEN "houses" ELSE "apartments"]

\* sum of row[field] over the rows of a bucket, skipping None and 0
RECURSIVE SumTruthy(_, _)
SumTruthy(bucket, field) ==
    IF DOMAIN bucket = {} THEN Num(0)
    ELSE LET k    == CHOOSE x \in DOMAIN bucket : TRUE
             rest == [x \in DOMAIN bucket \ {k} |-> bucket[x]]
             v    == Get(bucket[k], field, None)
         IN  IF Truthy(v) THEN RAdd(v, SumTruthy(rest, field)) ELSE SumTruthy(rest, field)

\* a > b for numbers that are not None
RGT(a, b) == RSub(a, b).num > 0

\* the key of the row with the most transactions (None when all have 0)
MostCommon(bucket) ==
    LET best(k) == GT(bucket[k].ms_total_transactions, 0)
                   /\ \A o \in DOMAIN bucket :
                        ~RGT(bucket[o].ms_total_transactions, bucket[k].ms_total_transactions)
    IN  IF \E k \in DOMAIN bucket : best(k)
        THEN CHOOSE k \in DOMAIN bucket : best(k) ELSE "None"

process_municipality_overview(data) ==
    IF IsEmpty(data) \/ ~Has(data, "current_data") THEN Ok(EmptyDict)
    ELSE LET current_data       == data.current_data
             previous_year_data == Get(data, "previous_year_data", EmptyDict)
             five_year_data     == Get(data, "five_year_data", EmptyDict)
             total_transactions == SumTruthy(current_data, "ms_total_transactions")
             total_price        == SumTruthy(current_data, "ms_total_price")
             avg_price          == calculate_avg(total_price, total_transactions)
             prev_year_avg_price ==
                 calculate_avg(SumTruthy(previous_year_data, "ms_total_price"),
                               SumTruthy(previous_year_data, "ms_total_transactions"))
             five_year_avg_price ==
                 calculate_avg(SumTruthy(five_year_data, "ms_total_price"),
                               SumTruthy(five_year_data, "ms_total_transactions"))
             most_common_type == MostCommon(current_data)
         IN  IF \E k \in DOMAIN current_data :
                    IsNone(Get(current_data[k], "ms_total_transactions", Num(0)))
             THEN Raise("TypeError")
             ELSE Ok(
               [last_period |->
                  [total_transactions |-> total_transactions,
                   price_trends |->
                     [mean_price   |-> avg_price,
                      median_price |-> IF most_common_type # "None"
                                       THEN Get(current_data[most_common_type], "ms_price_p50", None)
                                       ELSE None]],
                historical_trends |->
                  [year_over_year |->
                     [transaction_change_pct |->
                        calculate_change(total_transactions,
                            SumTruthy(previous_year_data, "ms_total_transactions"))[1],
                      price_change_pct |-> calculate_change(avg_price, prev_year_avg_price)[1]],
                   five_year |->
                     [transaction_change_pct |->
                        calculate_change(total_transactions,
                            SumTruthy(five_year_data, "ms_total_transactions"))[1],
                      price_change_pct |-> calculate_change(avg_price, five_year_avg_price)[1]]]])

\* by_property_type: the summary's most common type and, per mapped type,
\* the transaction count and the formatted one-year price evolution.
process_property_types(data, building_stock) ==
    IF IsEmpty(data) \/ ~Has(data, "current_data") THEN EmptyDict
    ELSE LET current_data       == Get(data, "current_data", EmptyDict)
             previous_year_data == Get(data, "previous_year_data", EmptyDict)
             codes == DOMAIN current_data \cap DOMAIN building_type_mapping
             mapped == [c \in codes |-> current_data[c]]
             common == IF MostCommon(mapped) # "None"
                       THEN building_type_mapping[MostCommon(mapped)] ELSE "None"
             entry(c) ==
                 LET mean_price == Get(current_data[c], "ms_mean_price", None)
                     prev_year_price == IF Has(previous_year_data, c)
                                        THEN Get(previous_year_data[c], "ms_mean_price", None)
                                        ELSE None
                 IN  [code |-> c,
                      transaction_count |-> Get(current_data[c], "ms_total_transactions", Num(0)),
                      price_evolution_1y |-> calculate_change(mean_price, prev_year_price)[2]]
         IN  [summary |-> [most_common_type |-> common],
              detailed_types |->
                 [t \in {building_type_mapping[c] : c \in codes} |->
                    entry(CHOOSE c \in codes : building_type_mapping[c] = t)]]

\* sector_analysis: a sector keeps its median price; the summary counts
\* the sectors that have one.
process_sector_analysis(data) ==
    IF IsEmpty(data) THEN EmptyDict
    ELSE [summary |->
            [sectors_count |->
                Cardinality({k \in DOMAIN data : ~IsNone(Get(data[k], "ms_price_p50", None))})]]

\* building_stock: a stock bucket maps a building-type code to its TOTAL count.
process_building_stock(data) ==
    IF IsEmpty(data) \/ ~Has(data, "current_data") THEN EmptyDict
    ELSE LET current_data   == data.current_data
             five_year_data == Get(data, "five_year_data", EmptyDict)
             houses == Get2(current_data, "200", "count", Num(0))
         IN  [total_buildings |-> SumTruthy(current_data, "count"),
              by_type |->
                 IF Has(current_data, "200")
                 THEN [single_family_houses |->
                         [count |-> houses,
                          evolution_5y |->
                             IF Has(five_year_data, "200")
                             THEN calculate_change(houses,
                                      Get(five_year_data["200"], "count", Num(0)))[2]
                             ELSE NoText]]
                 ELSE EmptyDict]

\* process_data catches every exception itself and then returns the four
\* sub-sections empty.
RealEstate_process_data(data) ==
    LET municipality_data   == Get(data, "municipality_data", EmptyDict)
        sector_data         == Get(data, "sector_data", EmptyDict)
        building_stock_data == Get(data, "building_stock", EmptyDict)
        overview == process_municipality_overview(municipality_data)
    IN  IF Raised(overview)
        THEN [municipality_overview |-> EmptyDict, by_property_type |-> EmptyDict,
              sector_analysis |-> EmptyDict, building_stock |-> EmptyDict]
        ELSE [municipality_overview |-> overview.val,
              by_property_type |-> process_property_types(municipality_data, building_stock_data),
              sector_analysis  |-> process_sector_analysis(sector_data),
              building_stock   |-> process_building_stock(building_stock_data)]

-----------------------------------------------------------------------------
(***************************************************************************)
(* DemographicsProcessor.  A population bucket holds total_population,     *)
(* ages_data (exact age, as a digit string, to its population; the sexes   *)
(* are summed) and nationalities (code to population).                     *)
(***************************************************************************)
age_group_mapping ==
    [under_18 |-> [min |-> 0, max |-> 17], 18_to_35 |-> [min |-> 18, max |-> 35],
     36_to_65 |-> [min |-> 36, max |-> 65], over_65 |-> [min |-> 66, max |-> 120]]

process_population_overview(data, area_km2) ==
    IF IsEmpty(data) \/ ~Has(data, "current_data") THEN Ok(EmptyDict)
    ELSE LET current_data       == data.current_data
             previous_year_data == Get(data, "previous_year_data", EmptyDict)
             five_year_data     == Get(data, "five_year_data", EmptyDict)
             total_population   == Get(current_data, "total_population", Num(0))
             previous_population == IF ~IsEmpty(previous_year_data)
                                    THEN Get(previous_year_data, "total_population", Num(0))
                                    ELSE Num(0)
             five_year_population == IF ~IsEmpty(five_year_data)
                                     THEN Get(five_year_data, "total_population", Num(0))
                                     ELSE Num(0)
             one_year_growth  == calculate_change(total_population, previous_population)[1]
             five_year_growth == calculate_change(total_population, five_year_population)[1]
             has_area == Truthy(area_km2) /\ GT(area_km2, 0)
         IN  IF has_area /\ IsNone(total_population) THEN Raise("TypeError")
             ELSE Ok([total_population |-> total_population,
                      population_density |-> IF has_area THEN RDiv(total_population, area_km2)
                                             ELSE None,
                      population_trend |->
                         [one_year_growth  |-> one_year_growth,
                          five_year_growth |-> five_year_growth,
                          forecast_growth  |-> IF ~IsNone(five_year_growth)
                                               THEN RDiv(five_year_growth, Num(5)) ELSE None]])

\* the ages of ages_data that int() accepts
ParsedAges(ages_data) == {a \in DOMAIN ages_data : ~Raised(PyInt(a))}

RECURSIVE SumAges(_, _)
SumAges(ages_data, ages) ==
    IF ages = {} THEN Num(0)
    ELSE LET a == CHOOSE x \in ages : TRUE
         IN  RAdd(ages_data[a], SumAges(ages_data, ages \ {a}))

\* the population of ages_data that falls in the band [lo, hi]
BandCount(ages_data, lo, hi) ==
    SumAges(ages_data, {a \in ParsedAges(ages_data) : PyInt(a).val >= lo /\ PyInt(a).val <= hi})

\* age_distribution.sort(key=lambda x: x[0]): the ages by their number
RECURSIVE SortedAges(_)
SortedAges(ages) ==
    IF ages = {} THEN <<>>
    ELSE LET a == CHOOSE x \in ages : \A y \in ages : PyInt(x).val <= PyInt(y).val
         IN  <<a>> \o SortedAges(ages \ {a})

\* the loop over age_distribution from its i-th pair on: the first age at
\* which the cumulated population is at least median_position
RECURSIVE MedianFrom(_, _, _, _, _)
MedianFrom(ages_data, age_distribution, i, cumulative_population, median_position) ==
    IF i > Len(age_distribution) THEN None
    ELSE LET cumulated == RAdd(cumulative_population, ages_data[age_distribution[i]])
         IN  IF ~RGT(median_position, cumulated)
             THEN Num(PyInt(age_distribution[i]).val)
             ELSE MedianFrom(ages_data, age_distribution, i + 1, cumulated, median_position)

\* a calculate_median_age that wants more than half of the population
calculate_median_age_past_half(ages_data, total_population) ==
    IF IsEmpty(ages_data) \/ LE(total_population, 0) THEN None
    ELSE MedianFrom(ages_data, SortedAges(ParsedAges(ages_data)), 1, Num(0),
                    RAdd(RDiv(total_population, Num(2)), Num(1)))

calculate_median_age(ages_data, total_population) ==
    IF IsEmpty(ages_data) \/ LE(total_population, 0) THEN None
    ELSE Bind([age_distribution \in {SortedAges(ParsedAges(ages_data))} |->
            IF age_distribution = <<>> THEN None
            ELSE MedianFrom(ages_data, age_distribution, 1, Num(0),
                            RDiv(total_population, Num(2)))])

process_age_structure(data) ==
    IF IsEmpty(data) \/ ~Has(data, "current_data") THEN EmptyDict
    ELSE LET current_data       == data.current_data
             previous_year_data == Get(data, "previous_year_data", EmptyDict)
             ages_data_current  == Get(current_data, "ages_data", EmptyDict)
             raw_total          == Get(current_data, "total_population", Num(0))
             total_population   == IF Truthy(raw_total) THEN raw_total ELSE Num(1)
             ages_data_prev     == Get(previous_year_data, "ages_data", EmptyDict)
             raw_prev_total     == Get(previous_year_data, "total_population", Num(0))
             prev_total_population == IF Truthy(raw_prev_total) THEN raw_prev_total ELSE Num(1)
             count(g) == BandCount(ages_data_current, age_group_mapping[g].min,
                                   age_group_mapping[g].max)
             percentage(g) == RMul(RDiv(count(g), total_population), Num(100))
             prev_count(g) == BandCount(ages_data_prev, age_group_mapping[g].min,
                                        age_group_mapping[g].max)
             trend(g) ==
                 IF IsEmpty(previous_year_data) THEN NoText
                 ELSE IF GT(prev_count(g), 0) /\ GT(prev_total_population, 0)
                 THEN LET prev_percentage ==
                              RMul(RDiv(prev_count(g), prev_total_population), Num(100))
                          change == calculate_change(percentage(g), prev_percentage)
                          v == change[1]
                      IN  IF Truthy(v) /\ 10 * Abs(v.num) < v.den
                          THEN <<IF v.num > 0 THEN "+" ELSE "-", "0", ",", "1", "%">>
                          ELSE change[2]
                 ELSE NA
             dependent_population   == RAdd(count("under_18"), count("over_65"))
             working_age_population == RAdd(count("18_to_35"), count("36_to_65"))
         IN  [median_age |-> calculate_median_age(ages_data_current, total_population),
              age_groups |-> [g \in DOMAIN age_group_mapping |->
                                [count |-> count(g), percentage |-> percentage(g),
                                 trend |-> trend(g)]],
              dependency_ratio |-> IF GT(working_age_population, 0)
                                   THEN RDiv(dependent_population, working_age_population)
                                   ELSE None]

\* household_composition: the totals and the average size (the breakdown by
\* household type is left out).
process_household_composition(data) ==
    IF IsEmpty(data) THEN EmptyDict
    ELSE LET total_types       == Get(data, "total_household_types", Num(0))
             total_individuals == Get(data, "total_individuals", Num(0))
         IN  [total_households |-> total_types,
              average_household_size |-> IF GT(total_types, 0)
                                         THEN RDiv(total_individuals, total_types) ELSE None]

\* cultural_diversity: the Belgian group (the two foreign groups are summed
\* the same way and left out).
process_cultural_diversity(data) ==
    IF IsEmpty(data) \/ ~Has(data, "current_data") THEN EmptyDict
    ELSE LET current_data == data.current_data
             nationalities_raw == Get(current_data, "nationalities", EmptyDict)
             raw_total == Get(current_data, "total_population", Num(0))
             total_population == IF Truthy(raw_total) THEN raw_total ELSE Num(1)
             belgian == Get(nationalities_raw, "BE", Num(0))
         IN  [nationality_groups |->
                [belgian |-> [count |-> belgian,
                              percentage |-> RMul(RDiv(belgian, total_population), Num(100))]]]

\* mobility: the average number of vehicles per household.
process_vehicles(data) ==
    IF IsEmpty(data) THEN EmptyDict
    ELSE [vehicle_ownership |->
            [average_vehicles_per_household |->
                Get2(data, "commune_totals", "avg_vehicles_per_household", Num(0))]]

Demographics_process_data(data, area_km2) ==
    LET population_data == Get(data, "population_structure", EmptyDict)
        household_data  == Get(data, "household_composition", EmptyDict)
        vehicles_data   == Get(data, "household_vehicles", EmptyDict)
        overview == process_population_overview(population_data, area_km2)
    IN  IF Raised(overview) THEN overview
        ELSE Ok([demographics |->
                   [population_overview   |-> overview.val,
                    age_structure         |-> process_age_structure(population_data),
                    household_composition |-> process_household_composition(household_data),
                    cultural_diversity    |-> process_cultural_diversity(population_data)],
                 geographical_context |-> [mobility |-> process_vehicles(vehicles_data)]])

-----------------------------------------------------------------------------
(***************************************************************************)
(* EconomicsProcessor.  A tax bucket keeps the two average incomes; a      *)
(* business bucket keeps general.total_enterprises, the enterprises per    *)
(* NACE sector, max_employees and percentage per size class, and the       *)
(* foreign counts.                                                         *)
(***************************************************************************)
main_sectors == [c \in {"F", "G"} |-> IF c = "F" THEN "construction" ELSE "retail"]

process_income_tax(data) ==
    IF IsEmpty(data) \/ ~Has(data, "current_data") THEN EmptyDict
    ELSE LET current_data == Get(data, "current_data", EmptyDict)
         IN  [income_overview |->
                [average_income |-> Get(current_data, "average_net_income", Num(0)),
                 median_income  |-> Get(current_data, "average_taxable_income", Num(0))],
              tax_burden |->
                [average_tax_rate |-> Get(current_data, "average_tax_burden_percentage", Num(0))]]

\* The buckets of the model hold no by_age_group entry, so the three rates
\* are the estimates the code makes from the overall rate.
process_unemployment(data) ==
    IF IsEmpty(data) \/ ~Has(data, "current_data") THEN EmptyDict
    ELSE LET current_data       == Get(data, "current_data", EmptyDict)
             previous_year_data == Get(data, "previous_year_data", EmptyDict)
             overall_rate       == Get(current_data, "overall_rate", Num(0))
             prev_overall_rate  == IF ~IsEmpty(previous_year_data)
                                   THEN Get(previous_year_data, "overall_rate", Num(0))
                                   ELSE Num(0)
             trend_yoy == IF Truthy(prev_overall_rate)
                          THEN RSub(overall_rate, prev_overall_rate) ELSE None
             estimate(factor) == [rate  |-> RMul(overall_rate, factor),
                                  trend |-> IF Truthy(trend_yoy) THEN trend_yoy ELSE None]
         IN  [overall_rate |-> overall_rate,
              trend_yoy    |-> trend_yoy,
              by_age_group |-> [under_25 |-> estimate(Rat(15, 10)),
                                25_to_50 |-> estimate(Rat(95, 100)),
                                over_50  |-> estimate(Rat(9, 10))]]

process_business_activity(data) ==
    IF IsEmpty(data) \/ ~Has(data, "current_data") THEN Ok(EmptyDict)
    ELSE LET current_data       == Get(data, "current_data", EmptyDict)
             previous_year_data == Get(data, "previous_year_data", EmptyDict)
             general_data == Get(current_data, "general", EmptyDict)
             sectors_data == Get(current_data, "sectors", EmptyDict)
             size_data    == Get(current_data, "by_size", EmptyDict)
             foreign_data == Get(current_data, "foreign", EmptyDict)
             codes == DOMAIN sectors_data \cap DOMAIN main_sectors
             sector(c) ==
                 LET enterprises == Get(sectors_data[c], "enterprises", Num(0))
                     prev_sectors == Get(previous_year_data, "sectors", EmptyDict)
                     prev_enterprises == Get2(prev_sectors, c, "enterprises", Num(0))
                 IN  [enterprise_count |-> enterprises,
                      trend |-> IF Has(prev_sectors, c) /\ GT(prev_enterprises, 0)
                                THEN calculate_change(enterprises, prev_enterprises)[2]
                                ELSE NoText]
             micro == {k \in DOMAIN size_data : Has(size_data[k], "max_employees")
                                               /\ LE(size_data[k].max_employees, 9)}
             foreign_count == Get(foreign_data, "enterprises", Num(0))
         IN  IF (\E k \in DOMAIN size_data : IsNone(Get(size_data[k], "max_employees", Num(0))))
                \/ IsNone(Get(foreign_data, "starts", Num(0)))
                \/ IsNone(Get(foreign_data, "stops", Num(0)))
                \/ IsNone(foreign_count)
             THEN Raise("TypeError")
             ELSE Ok([enterprise_overview |->
                        [total_enterprises |-> Get(general_data, "total_enterprises", Num(0))],
                      sectors |-> [t \in {main_sectors[c] : c \in codes} |->
                                     sector(CHOOSE c \in codes : main_sectors[c] = t)],
                      enterprise_size |->
                        [micro_enterprises_pct |-> SumTruthy([k \in micro |-> size_data[k]],
                                                             "percentage")],
                      foreign_investment |-> [foreign_enterprises_count |-> foreign_count]])

Economics_process_data(data) ==
    LET tax_income_data        == Get(data, "tax_income", EmptyDict)
        unemployment_data      == Get(data, "unemployment", EmptyDict)
        business_activity_data == Get(data, "business_activity", EmptyDict)
        business == process_business_activity(business_activity_data)
    IN  IF Raised(business) THEN business
        ELSE Ok([income_tax        |-> process_income_tax(tax_income_data),
                 business_activity |-> business.val,
                 unemployment      |-> process_unemployment(unemployment_data)])

-----------------------------------------------------------------------------
(***************************************************************************)
(* InvestmentProcessor.  Its four inputs are the processed sections (or    *)
(* None).  A comparison or an arithmetic operation on a None value raises  *)
(* TypeError.  The mortgage index and the ownership score, which need      *)
(* (1 + r)^n, are left out of the affordability metrics.                   *)
(***************************************************************************)
THRESHOLDS == [high_price_growth |-> 10, low_price_growth |-> 0 - 5, high_unemployment |-> 12]

\* real_estate_data['municipality_overview'] when the guard of the code holds
Overview(real_estate_data) ==
    IF TruthyDict(real_estate_data) /\ Has(real_estate_data, "municipality_overview")
    THEN real_estate_data.municipality_overview ELSE EmptyDict

HasOverview(real_estate_data) ==
    TruthyDict(real_estate_data) /\ Has(real_estate_data, "municipality_overview")

\* a process_affordability_metrics that reads
\* real_estate_data['municipality_overview'] without the test before it
process_affordability_metrics_unguarded(real_estate_data, economic_data) ==
    IF ~HasOverview(real_estate_data) THEN Raise("TypeError")
    ELSE Ok([price_to_income_ratio |-> None])

process_affordability_metrics(real_estate_data, economic_data) ==
    LET median_price ==
            IF HasOverview(real_estate_data)
            THEN Get(Get2(Overview(real_estate_data), "last_period", "price_trends", EmptyDict),
                     "median_price", Num(0))
            ELSE Num(0)
        avg_income ==
            IF TruthyDict(economic_data) /\ Has(economic_data, "income_tax")
            THEN Get(Get(economic_data.income_tax, "income_overview", EmptyDict),
                     "average_income", Num(0))
            ELSE Num(0)
    IN  IF IsNone(avg_income) \/ (GT(avg_income, 0) /\ IsNone(median_price))
        THEN Raise("TypeError")
        ELSE Ok([price_to_income_ratio |-> IF GT(avg_income, 0)
                                           THEN RDiv(median_price, avg_income) ELSE None])

\* process_rental_market_potential, the if / elif chain on the index
rental_growth_potential(rental_demand_index) ==
    IF RGT(rental_demand_index, Rat(7, 10)) THEN "Strong"
    ELSE IF RGT(rental_demand_index, Rat(6, 10)) THEN "Good"
    ELSE IF RGT(Rat(4, 10), rental_demand_index) THEN "Weak"
    ELSE IF RGT(Rat(3, 10), rental_demand_index) THEN "Very weak"
    ELSE "Moderate"

process_rental_market_potential(real_estate_data, economic_data, demographic_data) ==
    LET has_unemployment == TruthyDict(economic_data) /\ Has(economic_data, "unemployment")
        unemployment_rate == IF has_unemployment
                             THEN Get(economic_data.unemployment, "overall_rate", Num(0))
                             ELSE Num(0)
        has_population == TruthyDict(demographic_data)
                          /\ Has(demographic_data, "population_overview")
        five_year_growth ==
            IF has_population
            THEN Get(Get(demographic_data.population_overview, "population_trend", EmptyDict),
                     "five_year_growth", Num(0))
            ELSE Num(0)
        yield0 == Rat(42, 1000)
        yield1 == IF ~has_unemployment THEN yield0
                  ELSE IF GT(unemployment_rate, THRESHOLDS.high_unemployment)
                       THEN RSub(yield0, Rat(5, 1000))
                  ELSE IF LT(unemployment_rate, THRESHOLDS.high_unemployment \div 2)
                       THEN RAdd(yield0, Rat(3, 1000))
                  ELSE yield0
        case == IF ~has_population THEN "none"
                ELSE IF GT(five_year_growth, 5) THEN "high"
                ELSE IF GT(five_year_growth, 2) THEN "mid"
                ELSE IF LT(five_year_growth, 0) THEN "neg" ELSE "none"
        rental_demand_index ==
            CASE case = "high" -> Rat(7, 10) [] case = "mid" -> Rat(6, 10)
              [] case = "neg"  -> Rat(4, 10) [] OTHER -> Rat(5, 10)
        estimated_rental_yield ==
            CASE case = "high" -> RAdd(yield1, Rat(3, 1000))
              [] case = "mid"  -> RAdd(yield1, Rat(1, 1000))
              [] case = "neg"  -> RSub(yield1, Rat(1, 1000)) [] OTHER -> yield1
    IN  IF (has_unemployment /\ IsNone(unemployment_rate))
           \/ (has_population /\ IsNone(five_year_growth))
        THEN Raise("TypeError")
        ELSE Ok([estimated_rental_yield |-> estimated_rental_yield,
                 rental_demand_index |-> rental_demand_index,
                 rental_growth_potential |-> rental_growth_potential(rental_demand_index)])

\* float(s) succeeds on digits with at most one "." (no sign is left when
\* the code calls it); the formatted trends hold the decimal separator ","
FloatOk(s) ==
    /\ \E i \in 1..Len(s) : isdigit(<<s[i]>>)
    /\ \A i \in 1..Len(s) : isdigit(<<s[i]>>) \/ s[i] = "." \/ (i = 1 /\ s[i] = "-")
    /\ Cardinality({i \in 1..Len(s) : s[i] = "."}) <= 1

\* the trend text without its sign "+" and its "%", as the code cuts it
TrendNumber(trend) ==
    IF trend[1] = "+" THEN Slice(trend, 1, Len(trend) - 1) ELSE Slice(trend, 0, Len(trend) - 1)

\* float(s) for a text FloatOk accepts
ParseFloat(s) ==
    LET neg    == s[1] = "-"
        body   == IF neg THEN Slice(s, 1, Len(s)) ELSE s
        dot    == IF Contains(body, ".") THEN CHOOSE i \in 1..Len(body) : body[i] = "."
                  ELSE Len(body) + 1
        whole  == Slice(body, 0, dot - 1)
        frac   == Slice(body, dot, Len(body))
        value  == Rat(DigitsToInt(whole) * Pow10(Len(frac)) + DigitsToInt(frac), Pow10(Len(frac)))
    IN  IF neg THEN RSub(Num(0), value) ELSE value

get_age_segment_name(age_key) ==
    CASE age_key = "under_18" -> "Children & Teenagers"
      [] age_key = "18_to_35" -> "Young adults & Early professionals"
      [] age_key = "36_to_65" -> "Middle-aged families & Established professionals"
      [] age_key = "over_65"  -> "Seniors (65+)"
      [] OTHER -> age_key

\* target_demographic_analysis: the two lists are kept as the sets of their
\* segment names.  A trend counts only when float() parses it.
process_target_demographic_analysis(demographic_data) ==
    IF ~TruthyDict(demographic_data)
    THEN [growing_segments   |-> {"Seniors (65+)", "Young professionals"},
          declining_segments |-> {"Families with 3+ children"}]
    ELSE LET age_groups == Get2(demographic_data, "age_structure", "age_groups", EmptyDict)
             parsed == {g \in DOMAIN age_groups \ {"under_18"} :
                          /\ Get(age_groups[g], "trend", NoText) # NoText
                          /\ FloatOk(TrendNumber(age_groups[g].trend))}
             trend_value(g) == ParseFloat(TrendNumber(age_groups[g].trend))
             growing   == {g \in parsed : GE(trend_value(g), 1)}
             declining == {g \in parsed : LE(trend_value(g), 0 - 1)}
         IN  [growing_segments   |-> IF growing = {} THEN {"Seniors (65+)"}
                                     ELSE {get_age_segment_name(g) : g \in growing},
              declining_segments |-> {get_age_segment_name(g) : g \in declining}]

process_market_dynamics(real_estate_data, building_dev_data, demographic_data) ==
    LET new_residential_units ==
            IF TruthyDict(building_dev_data) /\ Has(building_dev_data, "permits")
            THEN Get3(Get(building_dev_data.permits, "counts", EmptyDict),
                      "residential", "new_construction", "dwellings", Num(0))
            ELSE Num(0)
        overview == IF TruthyDict(demographic_data)
                    THEN Get(demographic_data, "population_overview", EmptyDict) ELSE EmptyDict
        population_growth_rate ==
            IF TruthyDict(demographic_data)
            THEN Get2(overview, "population_trend", "one_year_growth", Num(0)) ELSE Num(0)
        population == IF TruthyDict(demographic_data)
                      THEN Get(overview, "total_population", Num(0)) ELSE Num(0)
        estimated_new_households ==
            IF GT(population, 0) /\ Truthy(population_growth_rate)
            THEN RDiv(RDiv(RMul(population, population_growth_rate), Num(100)), Rat(5, 2))
            ELSE Num(0)
        construction_vs_absorption_rate ==
            IF GT(estimated_new_households, 0)
            THEN RDiv(new_residential_units, estimated_new_households) ELSE Num(1)
        trends == Get(Overview(real_estate_data), "historical_trends", EmptyDict)
        price_change       == Get2(trends, "year_over_year", "price_change_pct", Num(0))
        transaction_change == Get2(trends, "year_over_year", "transaction_change_pct", Num(0))
    IN  IF IsNone(population)
           \/ (HasOverview(real_estate_data)
               /\ (IsNone(price_change) \/ IsNone(transaction_change)))
        THEN Raise("TypeError")
        ELSE Ok([supply_demand_balance |->
                    IF RGT(construction_vs_absorption_rate, Rat(125, 100)) THEN "Oversupply"
                    ELSE IF RGT(construction_vs_absorption_rate, Rat(11, 10))
                         THEN "Slight oversupply"
                    ELSE IF RGT(Rat(75, 100), construction_vs_absorption_rate) THEN "Undersupply"
                    ELSE IF RGT(Rat(9, 10), construction_vs_absorption_rate)
                         THEN "Slight undersupply"
                    ELSE "Balanced",
                 construction_vs_absorption_rate |-> construction_vs_absorption_rate,
                 market_cycle_position |->
                    IF ~HasOverview(real_estate_data) THEN "Mid-growth phase"
                    ELSE IF GT(price_change, 10) /\ GT(transaction_change, 5)
                         THEN "Strong growth phase"
                    ELSE IF GT(price_change, 5) /\ GT(transaction_change, 0) THEN "Growth phase"
                    ELSE IF LT(price_change, 0 - 5) /\ LT(transaction_change, 0 - 5)
                         THEN "Correction phase"
                    ELSE IF LT(price_change, 0) /\ LT(transaction_change, 0) THEN "Slowdown phase"
                    ELSE IF GT(price_change, 0) /\ LT(transaction_change, 0)
                         THEN "Late growth phase (pre-correction)"
                    ELSE IF Abs(price_change.num) < 2 * price_change.den
                            /\ Abs(transaction_change.num) < 3 * transaction_change.den
                         THEN "Stabilization phase"
                    ELSE "Mid-growth phase"])

process_risk_assessment(real_estate_data, economic_data, building_dev_data) ==
    LET overview == Overview(real_estate_data)
        trends   == Get(overview, "historical_trends", EmptyDict)
        price_change_1y == Get2(trends, "year_over_year", "price_change_pct", Num(0))
        price_change_5y == Get2(trends, "five_year", "price_change_pct", Num(0))
        transaction_change == Get2(trends, "year_over_year", "transaction_change_pct", Num(0))
        transactions == Get2(overview, "last_period", "total_transactions", Num(0))
        diff == RSub(price_change_1y, RDiv(price_change_5y, Num(5)))
        volatility_indicator == IF diff.num < 0 THEN RSub(Num(0), diff) ELSE diff
        by_volume == IF GT(transactions, 100) THEN 70
                     ELSE IF GT(transactions, 50) THEN 60
                     ELSE IF LT(transactions, 20) THEN 40
                     ELSE IF LT(transactions, 10) THEN 30
                     ELSE 50
        by_change == IF GT(transaction_change, 10) THEN by_volume + 10
                     ELSE IF GT(transaction_change, 5) THEN by_volume + 5
                     ELSE IF LT(transaction_change, 0 - 10) THEN by_volume - 10
                     ELSE IF LT(transaction_change, 0 - 5) THEN by_volume - 5
                     ELSE by_volume
        liquidity_score == IF HasOverview(real_estate_data) THEN by_change ELSE 50
        impact == IF TruthyDict(building_dev_data) /\ Has(building_dev_data, "construction_activity")
                  THEN Get2(building_dev_data.construction_activity, "supply_pipeline",
                            "impact_on_supply", "Medium")
                  ELSE "Medium"
        has_business == TruthyDict(economic_data) /\ Has(economic_data, "business_activity")
        business == IF has_business THEN economic_data.business_activity ELSE EmptyDict
        sectors  == Get(business, "sectors", EmptyDict)
        total_enterprises == Get2(business, "enterprise_overview", "total_enterprises", Num(0))
        sector_pct(k) == RMul(RDiv(Get(sectors[k], "enterprise_count", Num(0)),
                                   total_enterprises), Num(100))
    IN  IF \/ /\ HasOverview(real_estate_data)
              /\ \/ IsNone(price_change_1y) \/ IsNone(price_change_5y)
                 \/ IsNone(transactions) \/ IsNone(transaction_change)
           \/ /\ has_business /\ DOMAIN sectors # {}
              /\ \/ IsNone(total_enterprises)
                 \/ /\ GT(total_enterprises, 0)
                    /\ \E k \in DOMAIN sectors :
                          IsNone(Get(sectors[k], "enterprise_count", Num(0)))
        THEN Raise("TypeError")
        ELSE Ok([price_volatility |->
                    IF ~HasOverview(real_estate_data) THEN "Medium"
                    ELSE IF LT(volatility_indicator, 3) THEN "Low"
                    ELSE IF GT(volatility_indicator, 7) THEN "High" ELSE "Medium",
                 liquidity_score |-> IF liquidity_score > 100 THEN 100
                                     ELSE IF liquidity_score < 0 THEN 0 ELSE liquidity_score,
                 oversupply_risk |-> IF impact \in {"High", "Low"} THEN impact ELSE "Medium",
                 economic_dependency_risk |->
                    IF ~has_business THEN "Medium"
                    ELSE IF GT(total_enterprises, 0)
                            /\ \E k \in DOMAIN sectors : GT(sector_pct(k), 40) THEN "High"
                    ELSE IF ~GT(total_enterprises, 0)
                            \/ \A k \in DOMAIN sectors : LT(sector_pct(k), 25) THEN "Low"
                    ELSE "Medium"])

process_comparative_ranking(real_estate_data, economic_data, demographic_data) ==
    LET both_re_eco  == TruthyDict(real_estate_data) /\ TruthyDict(economic_data)
        both_re_demo == TruthyDict(real_estate_data) /\ TruthyDict(demographic_data)
        overview == IF TruthyDict(real_estate_data)
                    THEN Get(real_estate_data, "municipality_overview", EmptyDict) ELSE EmptyDict
        median_price == Get(Get2(overview, "last_period", "price_trends", EmptyDict),
                            "median_price", Num(0))
        avg_income == IF TruthyDict(economic_data)
                      THEN Get(Get2(economic_data, "income_tax", "income_overview", EmptyDict),
                               "average_income", Num(0))
                      ELSE Num(0)
        ratio == RDiv(median_price, avg_income)
        value_for_money_score ==
            IF both_re_eco /\ GT(median_price, 0) /\ GT(avg_income, 0)
            THEN IF LT(ratio, 4) THEN 80 ELSE IF LT(ratio, 5) THEN 70
                 ELSE IF LT(ratio, 6) THEN 60 ELSE IF GT(ratio, 8) THEN 30
                 ELSE IF GT(ratio, 7) THEN 40 ELSE 50
            ELSE 50
        price_change == Get(Get2(overview, "historical_trends", "year_over_year", EmptyDict),
                            "price_change_pct", Num(0))
        population_growth ==
            IF TruthyDict(demographic_data)
            THEN Get(Get2(demographic_data, "population_overview", "population_trend", EmptyDict),
                     "five_year_growth", Num(0))
            ELSE Num(0)
        by_price == IF GT(price_change, 5) THEN 65 ELSE IF GT(price_change, 3) THEN 60
                    ELSE IF LT(price_change, 0) THEN 40 ELSE 50
        by_population == IF GT(population_growth, 5) THEN by_price + 15
                         ELSE IF GT(population_growth, 2) THEN by_price + 10
                         ELSE IF LT(population_growth, 0) THEN by_price - 10 ELSE by_price
        growth_potential_score == IF both_re_demo THEN by_population ELSE 50
    IN  IF (both_re_eco /\ (IsNone(median_price)
                            \/ (GT(median_price, 0) /\ IsNone(avg_income))))
           \/ (both_re_demo /\ (IsNone(price_change) \/ IsNone(population_growth)))
        THEN Raise("TypeError")
        ELSE Ok([value_for_money_rank  |-> 101 - value_for_money_score,
                 growth_potential_rank |-> 101 - growth_potential_score,
                 overall_investment_score |->
                    RAdd(RMul(Num(value_for_money_score), Rat(4, 10)),
                         RMul(Num(growth_potential_score), Rat(6, 10)))])

Investment_process_data(real_estate_data, economic_data, demographic_data, building_dev_data) ==
    LET affordability == process_affordability_metrics(real_estate_data, economic_data)
        rental   == process_rental_market_potential(real_estate_data, economic_data,
                                                    demographic_data)
        target   == process_target_demographic_analysis(demographic_data)
        dynamics == process_market_dynamics(real_estate_data,
                        IF TruthyDict(building_dev_data) THEN building_dev_data ELSE EmptyDict,
                        demographic_data)
        risk     == process_risk_assessment(real_estate_data, economic_data, building_dev_data)
        ranking  == process_comparative_ranking(real_estate_data, economic_data,
                                                demographic_data)
    IN  FirstRaised(<<affordability, rental, dynamics, risk, ranking>>,
            Ok([affordability_metrics       |-> affordability.val,
                rental_market_potential     |-> rental.val,
                target_demographic_analysis |-> target,
                market_dynamics             |-> dynamics.val,
                risk_assessment             |-> risk.val,
                comparative_ranking         |-> ranking.val]))

-----------------------------------------------------------------------------
(***************************************************************************)
(* The warehouse.  dim_geography holds the municipalities 1..MaxCommunes;  *)
(* municipality c lies in province ProvinceOf(c).  dim_date holds an       *)
(* annual row and four quarterly rows for every year of dim_date; the id   *)
(* of a row is kept as its [year, quarter] (quarter 0: the annual row),    *)
(* NoDate stands for "no row" (None).  The fact rows of a municipality     *)
(* follow its profile:                                                     *)
(*   full   - rows at every date;                                          *)
(*   recent - rows from RecentFrom(dim_date) on only;                      *)
(*   sparse - as full, but no foreign-enterprise row and no size bound;    *)
(*   none   - no fact row at all.                                          *)
(* A fault set f names the query points whose query fails (the driver      *)
(* raises); an outage is the set of all points.                            *)
(***************************************************************************)
Communes == 1..MaxCommunes

\* the commune id that is not given (None)
NoCommune == 0

Provinces == {"Liege", "Namur"}

ProvinceOf(c) == IF c % 2 = 1 THEN "Liege" ELSE "Namur"

Profiles == {"full", "recent", "sparse", "none"}

dim_date == [first_year |-> 2000, last_year |-> 2024, recent_from |-> 2022]

NoDate == <<>>

DateRow(year, quarter) == [year |-> year, quarter |-> quarter]

QueryPoints ==
    {"communes", "date_id", "geo_info", "geo_hierarchy", "geo_spatial", "geo_sectors",
     "re_latest", "re_previous", "re_five_year", "re_rows", "re_sector_rows", "re_stock_rows",
     "population_rows", "region_lookup", "household_rows", "vehicle_rows",
     "tax_rows", "unemployment_hierarchy", "unemployment_rows", "business_rows",
     "permit_count_rows", "permit_surface_rows", "permit_volume_rows"}

Fails(f, point) == point \in f

\* fact rows of a municipality with this profile exist at this date
HasRows(profile, date) ==
    /\ date # NoDate
    /\ \/ profile \in {"full", "sparse"}
       \/ profile = "recent" /\ date.year >= dim_date.recent_from

\* the same, for a fact table that holds annual rows only
HasAnnualRows(profile, date) == HasRows(profile, date) /\ date.quarter = 0

\* a sample measure that grows by one tenth of base per year
Measure(base, date) == Num(base + (base \div 10) * (date.year - dim_date.first_year))

\* BaseExtractor.get_communes: the rows of dim_geography at level 4, of the
\* one municipality when commune_id is set; the province of the extractor
\* takes no part in the query, and every row carries the fixed province
\* text.  The list is kept as a sequence in id order.
get_communes(commune_id, province, f) ==
    IF Fails(f, "communes") THEN Raise("SQLAlchemyError")
    ELSE LET ids == IF commune_id # NoCommune THEN Communes \cap {commune_id} ELSE Communes
             row(c) == [commune_id |-> c, commune_name |-> c,
                        region |-> "Région wallonne", province |-> "Non spécifiée"]
         IN  Ok([i \in 1..Cardinality(ids) |->
                   row(CHOOSE c \in ids : Cardinality({d \in ids : d < c}) = i - 1)])

\* BaseExtractor.get_date_id: Ok(date row) or Ok(NoDate), or the exception
\* of int() or of the query.
get_date_id(period, f) ==
    LET lookup(year, quarter) ==
            IF Fails(f, "date_id") THEN Raise("SQLAlchemyError")
            ELSE IF year >= dim_date.first_year /\ year <= dim_date.last_year
                    /\ quarter \in 0..4 /\ (Len(period) = 7 => quarter # 0)
                 THEN Ok(DateRow(year, quarter))
                 ELSE Ok(NoDate)
    IN  IF Len(period) = 4 /\ isdigit(period)
        THEN lookup(PyInt(period).val, 0)
        ELSE IF Len(period) = 7 /\ Slice(period, 4, 5) = <<"-">>
                /\ Slice(period, 5, 6) = <<"Q">> /\ isdigit(Slice(period, 6, 7))
        THEN LET year    == PyInt(Slice(period, 0, 4))
                 quarter == PyInt(Slice(period, 6, 7))
             IN  IF Raised(year) THEN year ELSE lookup(year.val, quarter.val)
        ELSE Ok(NoDate)

-----------------------------------------------------------------------------
(***************************************************************************)
(* RealEstateExtractor.  Each extract function yields Ok(dict) or the      *)
(* exception that leaves it; a query inside try/except yields {} instead.  *)
(***************************************************************************)
\* the rows of fact_real_estate_municipality at a date, by building type
MunicipalityRows(profile, date) ==
    IF ~HasRows(profile, date) THEN EmptyDict
    ELSE [c \in DOMAIN building_type_mapping |->
            LET transactions == Measure(IF c = "200" THEN 40 ELSE 20, date)
                mean_price   == Measure(200000, date)
            IN  [ms_total_transactions |-> transactions,
                 ms_total_price |-> RMul(transactions, mean_price),
                 ms_mean_price  |-> mean_price,
                 ms_price_p50   |-> Measure(180000, date)]]

\* the date of dim_date with this year and quarter at which the
\* municipality has real-estate rows, or NoDate
PeriodWithRows(profile, year, quarter) ==
    IF year >= dim_date.first_year /\ year <= dim_date.last_year
       /\ HasRows(profile, DateRow(year, quarter))
    THEN DateRow(year, quarter) ELSE NoDate

extract_municipality_data_for_period(profile, date_id, f) ==
    IF Fails(f, "re_rows") THEN EmptyDict ELSE MunicipalityRows(profile, date_id)

\* The latest period with rows is the last quarter of dim_date.
extract_municipality_data(profile, f) ==
    LET latest == PeriodWithRows(profile, dim_date.last_year, 4)
        previous  == PeriodWithRows(profile, latest.year - 1, latest.quarter)
        five_year == PeriodWithRows(profile, latest.year - 5, latest.quarter)
    IN  IF Fails(f, "re_latest") THEN Raise("SQLAlchemyError")
        ELSE IF latest = NoDate THEN Ok(EmptyDict)
        ELSE IF Fails(f, "re_previous") \/ Fails(f, "re_five_year")
        THEN Raise("SQLAlchemyError")
        ELSE Ok([current_data |-> extract_municipality_data_for_period(profile, latest, f),
                 previous_year_data |->
                    IF previous # NoDate
                    THEN extract_municipality_data_for_period(profile, previous, f)
                    ELSE EmptyDict,
                 five_year_data |->
                    IF five_year # NoDate
                    THEN extract_municipality_data_for_period(profile, five_year, f)
                    ELSE EmptyDict,
                 latest_period |-> [year |-> latest.year, quarter |-> latest.quarter]])

\* A sector keeps the median price of its rows.
extract_sector_data(profile, data_period, f) ==
    LET date_id == get_date_id(data_period, f)
    IN  IF Raised(date_id) THEN date_id
        ELSE IF date_id.val = NoDate THEN Ok(EmptyDict)
        ELSE IF Fails(f, "re_sector_rows") \/ ~HasRows(profile, date_id.val)
                \/ date_id.val.quarter = 0 THEN Ok(EmptyDict)
        ELSE Ok([k \in {"A0", "A1"} |->
                   [ms_price_p50 |-> IF k = "A0" THEN Measure(180000, date_id.val) ELSE None]])

extract_building_stock_for_period(profile, date_id, f) ==
    IF Fails(f, "re_stock_rows") \/ ~HasAnnualRows(profile, date_id) THEN EmptyDict
    ELSE [c \in DOMAIN building_type_mapping |->
            [count |-> Measure(IF c = "200" THEN 3000 ELSE 1000, date_id)]]

\* extract_building_stock: the periods it resolves to dates, the year of the
\* configured period and the year five before it
building_stock_periods(data_period) ==
    LET year_period == IF Contains(data_period, "-") THEN Slice(data_period, 0, 4)
                       ELSE data_period
    IN  [year_period |-> year_period, five_year_ago |-> YearsBack(year_period, 5)]

extract_building_stock(profile, data_period, f) ==
    LET year_period == building_stock_periods(data_period).year_period
        date_id == get_date_id(year_period, f)
        five_year_ago == building_stock_periods(data_period).five_year_ago
        five_year_date_id == get_date_id(five_year_ago.val, f)
    IN  IF Raised(date_id) THEN date_id
        ELSE IF date_id.val = NoDate THEN Ok(EmptyDict)
        ELSE IF Raised(five_year_ago) THEN five_year_ago
        ELSE IF Raised(five_year_date_id) THEN five_year_date_id
        ELSE Ok([current_data |-> extract_building_stock_for_period(profile, date_id.val, f),
                 five_year_data |->
                    IF five_year_date_id.val # NoDate
                    THEN extract_building_stock_for_period(profile, five_year_date_id.val, f)
                    ELSE EmptyDict])

RealEstate_extract_data(profile, period, f) ==
    LET data_period == Get(period, "real_estate_data", DEFAULT_PERIOD.real_estate_data)
        municipality_data == extract_municipality_data(profile, f)
        sector_data       == extract_sector_data(profile, data_period, f)
        building_stock    == extract_building_stock(profile, data_period, f)
    IN  FirstRaised(<<municipality_data, sector_data, building_stock>>,
            Ok([municipality_data |-> municipality_data.val,
                sector_data       |-> sector_data.val,
                building_stock    |-> building_stock.val]))

-----------------------------------------------------------------------------
(***************************************************************************)
(* BuildingExtractor.  The three permit extractors (counts, surface,       *)
(* volume) have the same shape and share extract_permits; kind names the   *)
(* fact table.                                                             *)
(***************************************************************************)
PermitRows(kind, profile, date) ==
    IF ~HasRows(profile, date) \/ date.quarter = 0 THEN EmptyDict
    ELSE IF kind = "counts"
    THEN LET bucket(base) == [buildings |-> Measure(base, date),
                              dwellings |-> Measure(2 * base, date)]
         IN  [residential |-> [new_construction |-> bucket(20), renovation |-> bucket(10)],
              non_residential |-> [new_construction |-> [buildings |-> Measure(10, date),
                                                         dwellings |-> None]],
              total |-> [buildings |-> Measure(40, date), dwellings |-> Measure(60, date)]]
    ELSE IF kind = "surface"
    THEN [total_surface_m2 |-> Measure(4000, date),
          avg_surface_per_dwelling_m2 |-> Num(100)]
    ELSE [total_volume_m3 |-> Measure(9000, date)]

PermitPoint(kind) ==
    CASE kind = "counts" -> "permit_count_rows" [] kind = "surface" -> "permit_surface_rows"
      [] OTHER -> "permit_volume_rows"

extract_permits_for_period(kind, profile, date_id, f) ==
    IF Fails(f, PermitPoint(kind)) THEN EmptyDict ELSE PermitRows(kind, profile, date_id)

\* f"{int(self.data_period[:4]) - 1}{self.data_period[4:]}"
previous_year_period_of(data_period) ==
    PyStr(PyInt(Slice(data_period, 0, 4)).val - 1) \o Slice(data_period, 4, Len(data_period))

extract_permits(kind, profile, data_period, f) ==
    LET date_id == get_date_id(data_period, f)
        year == PyInt(Slice(data_period, 0, 4))
        previous_year_period == previous_year_period_of(data_period)
        previous_year_date_id == get_date_id(previous_year_period, f)
    IN  IF Raised(date_id) THEN date_id
        ELSE IF date_id.val = NoDate THEN Ok(EmptyDict)
        ELSE IF Raised(year) THEN year
        ELSE IF Raised(previous_year_date_id) THEN previous_year_date_id
        ELSE Ok([current_data |-> extract_permits_for_period(kind, profile, date_id.val, f),
                 previous_year_data |->
                    IF previous_year_date_id.val # NoDate
                    THEN extract_permits_for_period(kind, profile, previous_year_date_id.val, f)
                    ELSE EmptyDict])

Building_extract_data(profile, period, f) ==
    LET data_period == Get(period, "construction_data", DEFAULT_PERIOD.construction_data)
        permits_counts  == extract_permits("counts", profile, data_period, f)
        permits_surface == extract_permits("surface", profile, data_period, f)
        permits_volume  == extract_permits("volume", profile, data_period, f)
    IN  FirstRaised(<<permits_counts, permits_surface, permits_volume>>,
            Ok([permits_counts  |-> permits_counts.val,
                permits_surface |-> permits_surface.val,
                permits_volume  |-> permits_volume.val]))

-----------------------------------------------------------------------------
(***************************************************************************)
(* DemographicsExtractor.  A population bucket holds total_population (the *)
(* SUM of the rows: None when there is none), age_groups (age id to        *)
(* population) and nationalities (code to population).                     *)
(***************************************************************************)
extract_population_data_for_period(profile, date_id, f) ==
    IF Fails(f, "population_rows") THEN EmptyDict
    ELSE IF ~HasAnnualRows(profile, date_id)
    THEN [total_population |-> None, age_groups |-> EmptyDict, nationalities |-> EmptyDict]
    ELSE LET total == Measure(10000, date_id)
         IN  [total_population |-> total,
              age_groups    |-> [a \in {<<"1", "0">>, <<"4", "0">>} |-> RDiv(total, Num(2))],
              nationalities |-> [n \in {"BE", "FR"} |->
                                   RMul(total, IF n = "BE" THEN Rat(9, 10) ELSE Rat(1, 10))]]

extract_population_structure(profile, data_period, f) ==
    LET date_id == get_date_id(data_period, f)
        previous_year == YearsBack(data_period, 1)
        previous_year_date_id == get_date_id(previous_year.val, f)
        five_year_ago == YearsBack(data_period, 5)
        five_year_date_id == get_date_id(five_year_ago.val, f)
        bucket(d) == IF d # NoDate THEN extract_population_data_for_period(profile, d, f)
                     ELSE EmptyDict
    IN  IF Raised(date_id) THEN date_id
        ELSE IF date_id.val = NoDate THEN Ok(EmptyDict)
        ELSE IF Raised(previous_year) THEN previous_year
        ELSE IF Raised(previous_year_date_id) THEN previous_year_date_id
        ELSE IF Raised(five_year_date_id) THEN five_year_date_id
        ELSE Ok([current_data       |-> bucket(date_id.val),
                 previous_year_data |-> bucket(previous_year_date_id.val),
                 five_year_data     |-> bucket(five_year_date_id.val)])

\* the region of the municipality; when the query fails, the region the
\* code derives from the first digit of the id ("None": no region)
_get_region_for_commune(commune_id, f) ==
    IF ~Fails(f, "region_lookup") THEN "2061"
    ELSE LET first == PyStr(commune_id)[1]
         IN  CASE first = "1" -> "2061" [] first = "2" -> "2031" [] first = "3" -> "2028"
               [] OTHER -> "None"

\* the totals of the region at a date (regions have rows at every annual date)
_extract_regional_household_data(region_id, date_id, f) ==
    IF Fails(f, "household_rows") \/ date_id.quarter # 0 THEN EmptyDict
    ELSE [total_household_types |-> Num(4), total_individuals |-> Measure(1000000, date_id)]

\* int(x) for a number x >= 0 that is not None
PyIntOf(x) == Num(x.num \div x.den)

_scale_regional_data_to_commune(regional_data, commune_population) ==
    IF IsEmpty(regional_data) \/ ~Has(regional_data, "total_individuals")
       \/ regional_data.total_individuals.num = 0
    THEN EmptyDict
    ELSE LET scale_factor == RDiv(commune_population, regional_data.total_individuals)
         IN  [total_household_types |->
                 PyIntOf(RMul(regional_data.total_household_types, scale_factor)),
              total_individuals |-> commune_population,
              is_estimated |-> TRUE]

\* Every exception inside is caught and yields {}.
extract_household_composition(commune_id, profile, data_period, f) ==
    LET region_id == _get_region_for_commune(commune_id, f)
        population_data == extract_population_structure(profile, data_period, f)
        commune_population == Get2(population_data.val, "current_data", "total_population", Num(0))
        date_id == get_date_id(data_period, f)
    IN  IF region_id = "None" \/ Raised(population_data) THEN EmptyDict
        ELSE IF IsEmpty(population_data.val) \/ ~Has(population_data.val, "current_data")
        THEN EmptyDict
        ELSE IF ~Truthy(commune_population) THEN EmptyDict
        ELSE IF Raised(date_id) THEN EmptyDict
        ELSE IF date_id.val = NoDate THEN EmptyDict
        ELSE _scale_regional_data_to_commune(
                 _extract_regional_household_data(region_id, date_id.val, f),
                 commune_population)

\* The vehicle rows of a municipality are those of its latest period.
extract_household_vehicles(profile, f) ==
    IF Fails(f, "vehicle_rows") \/ profile = "none" THEN EmptyDict
    ELSE [commune_totals |-> [total_households |-> Num(4000), total_vehicles |-> Num(4400),
                              avg_vehicles_per_household |-> Rat(11, 10)],
          year |-> dim_date.last_year]

Demographics_extract_data(commune_id, profile, period, f) ==
    LET data_period == Get(period, "demographic_data", DEFAULT_PERIOD.demographic_data)
        population_structure == extract_population_structure(profile, data_period, f)
    IN  IF Raised(population_structure) THEN population_structure
        ELSE Ok([population_structure  |-> population_structure.val,
                 household_composition |->
                    extract_household_composition(commune_id, profile, data_period, f),
                 household_vehicles    |-> extract_household_vehicles(profile, f)])

-----------------------------------------------------------------------------
(***************************************************************************)
(* EconomicsExtractor.                                                     *)
(***************************************************************************)
extract_tax_data_for_period(profile, date_id, f) ==
    IF Fails(f, "tax_rows") \/ ~HasAnnualRows(profile, date_id) THEN EmptyDict
    ELSE [average_net_income     |-> Measure(20000, date_id),
          average_taxable_income |-> Measure(18000, date_id),
          average_tax_burden_percentage |-> Num(25)]

\* The unemployment rows of the municipality, its province and its region
\* at a date.
_extract_unemployment_data_if_available(profile, date_id, f) ==
    LET rows == IF Fails(f, "unemployment_rows") \/ ~HasAnnualRows(profile, date_id)
                THEN EmptyDict ELSE [overall_rate |-> Num(8)]
    IN  [commune |-> rows, province |-> rows, region |-> rows]

\* The foreign totals are SUMs: None when the municipality has no foreign
\* row; nb_max_employees is NULL for the open size class.
extract_business_data_for_period(profile, date_id, f) ==
    IF Fails(f, "business_rows") \/ ~HasAnnualRows(profile, date_id) THEN EmptyDict
    ELSE LET foreign(n) == IF profile = "sparse" THEN None ELSE Measure(n, date_id)
         IN  [general |-> [total_enterprises |-> Measure(1000, date_id)],
              sectors |-> [c \in {"F", "G", "Z"} |->
                             [enterprises |-> Measure(IF c = "G" THEN 500 ELSE 250, date_id)]],
              by_size |-> [k \in {"1", "9"} |->
                             [max_employees |-> IF k = "1" THEN Num(9)
                                                ELSE IF profile = "sparse" THEN None
                                                ELSE Num(49),
                              percentage |-> IF k = "1" THEN Num(80) ELSE Num(20)]],
              foreign |-> [enterprises |-> foreign(50), starts |-> foreign(10),
                           stops |-> foreign(10)]]

\* the bucket of one of the three annual fact tables at a date
AnnualBucket(table, profile, date_id, f) ==
    CASE table = "tax"          -> extract_tax_data_for_period(profile, date_id, f)
      [] table = "unemployment" -> _extract_unemployment_data_if_available(profile, date_id, f)
      [] OTHER                  -> extract_business_data_for_period(profile, date_id, f)

\* An annual extract function of the economics extractor: the current and
\* the previous-year bucket (extract_tax_income adds the five-year one).
ExtractAnnual(table, profile, data_period, f, with_five_year) ==
    LET date_id == get_date_id(data_period, f)
        previous_year == YearsBack(data_period, 1)
        previous_year_date_id == get_date_id(previous_year.val, f)
        five_year_date_id == get_date_id(YearsBack(data_period, 5).val, f)
        at(d) == IF d # NoDate THEN AnnualBucket(table, profile, d, f) ELSE EmptyDict
    IN  IF Raised(date_id) THEN date_id
        ELSE IF date_id.val = NoDate THEN Ok(EmptyDict)
        ELSE IF Raised(previous_year) THEN previous_year
        ELSE IF Raised(previous_year_date_id) THEN previous_year_date_id
        ELSE IF ~with_five_year
        THEN Ok([current_data |-> at(date_id.val),
                 previous_year_data |-> at(previous_year_date_id.val)])
        ELSE IF Raised(five_year_date_id) THEN five_year_date_id
        ELSE Ok([current_data |-> at(date_id.val),
                 previous_year_data |-> at(previous_year_date_id.val),
                 five_year_data |-> at(five_year_date_id.val)])

extract_tax_income(profile, tax_period, f) ==
    ExtractAnnual("tax", profile, tax_period, f, TRUE)

\* (the three-year bucket is fetched like the previous-year one and left out)
extract_unemployment(profile, data_period, f) ==
    IF Fails(f, "unemployment_hierarchy") THEN Ok(EmptyDict)
    ELSE ExtractAnnual("unemployment", profile, data_period, f, FALSE)

extract_business_activity(profile, data_period, f) ==
    ExtractAnnual("business", profile, data_period, f, FALSE)

Economics_extract_data(profile, period, f) ==
    LET data_period == Get(period, "economic_data", DEFAULT_PERIOD.economic_data)
        tax_period  == Get(period, "tax_data", DEFAULT_PERIOD.tax_data)
        tax_income        == extract_tax_income(profile, tax_period, f)
        unemployment      == extract_unemployment(profile, data_period, f)
        business_activity == extract_business_activity(profile, data_period, f)
    IN  FirstRaised(<<tax_income, unemployment, business_activity>>,
            Ok([tax_income        |-> tax_income.val,
                unemployment      |-> unemployment.val,
                business_activity |-> business_activity.val]))

-----------------------------------------------------------------------------
(***************************************************************************)
(* GeographyExtractor.  All its queries run inside try/except.             *)
(***************************************************************************)
find_administrative_hierarchy(commune_id, f) ==
    IF Fails(f, "geo_hierarchy") THEN EmptyDict
    ELSE [province_name |-> ProvinceOf(commune_id), region_name |-> "Région wallonne"]

extract_commune_spatial_data(commune_id, f) ==
    IF Fails(f, "geo_spatial") THEN EmptyDict ELSE [area_km2 |-> Num(50)]

extract_commune_info(commune_id, f) ==
    IF Fails(f, "geo_info") \/ commune_id \notin Communes THEN EmptyDict
    ELSE LET admin_hierarchy == find_administrative_hierarchy(commune_id, f)
             spatial_info == extract_commune_spatial_data(commune_id, f)
             commune_data == [commune_id |-> commune_id, commune_name |-> commune_id,
                              province |-> Get(admin_hierarchy, "province_name",
                                               "Province inconnue"),
                              region |-> Get(admin_hierarchy, "region_name", "Région inconnue")]
         IN  IF ~IsEmpty(spatial_info)
             THEN [k \in DOMAIN commune_data \cup DOMAIN spatial_info |->
                     IF k \in DOMAIN spatial_info THEN spatial_info[k] ELSE commune_data[k]]
             ELSE commune_data

extract_statistical_sectors(commune_id, f) ==
    IF Fails(f, "geo_sectors") \/ commune_id \notin Communes THEN EmptyDict
    ELSE [k \in {"A0", "A1"} |-> [cd_sector |-> k, area_km2 |-> Num(25)]]

Geography_extract_data(commune_id, f) ==
    [commune_info |-> extract_commune_info(commune_id, f),
     statistical_sectors |-> extract_statistical_sectors(commune_id, f)]

-----------------------------------------------------------------------------
(***************************************************************************)
(* MunicipalityGenerator: the steps of generate_for_commune as functions   *)
(* of the municipality, its warehouse profile, the configured periods and  *)
(* the fault set of the step.  The encoder class that save_json hands to   *)
(* json.dumps is not among the sources at hand; the values of a report     *)
(* (numbers, texts, None, dicts, lists) are all values it is to write, so  *)
(* serialisation succeeds.                                                 *)
(***************************************************************************)
\* province.lower().replace(' ', '_'), then 'autres' for '' and 'non_spécifiée'
ProvinceDir(province) ==
    CASE province = "Liege" -> "liege"
      [] province = "Namur" -> "namur"
      [] province = "Province inconnue" -> "province_inconnue"
      [] OTHER -> "autres"

\* d1.update(d2)
Update(d1, d2) ==
    [k \in DOMAIN d1 \cup DOMAIN d2 |-> IF k \in DOMAIN d2 THEN d2[k] ELSE d1[k]]

\* get_commune_info: Ok([commune_info, output_path]) or the exception of the
\* fallback listing.  The fallback copies the keys of the first listed row
\* that commune_info lacks.
get_commune_info(commune_id, f) ==
    Bind([found \in {Geography_extract_data(commune_id, f).commune_info} |->
    Bind([communes \in {get_communes(commune_id, "None", f)} |->
    Bind([commune_info \in
            {IF Has(found, "province") THEN found
             ELSE IF Len(communes.val) > 0 THEN Update(communes.val[1], found)
             ELSE found} |->
        IF ~Has(found, "province") /\ Raised(communes) THEN communes
        ELSE Ok([commune_info |-> commune_info,
                 output_path  |->
                    <<ProvinceDir(Get(commune_info, "province", "")), commune_id>>])])])])

extract_all_data(commune_id, profile, data_periods, f) ==
    Bind([extracted \in
            {<<RealEstate_extract_data(profile, data_periods, f),
               Demographics_extract_data(commune_id, profile, data_periods, f),
               Economics_extract_data(profile, data_periods, f),
               Building_extract_data(profile, data_periods, f)>>} |->
        FirstRaised(extracted,
            Ok([real_estate  |-> extracted[1].val,
                demographics |-> extracted[2].val,
                economics    |-> extracted[3].val,
                building     |-> extracted[4].val,
                geography    |-> Geography_extract_data(commune_id, f)]))])

\* process_data, lines 160-172: the area and the commune_info it updates
AreaOf(raw_data) ==
    Get(Get2(raw_data, "geography", "commune_info", EmptyDict), "area_km2", None)

UpdatedCommuneInfo(raw_data, commune_info) ==
    LET geo_commune_info == Get2(raw_data, "geography", "commune_info", EmptyDict)
    IN  Update(commune_info,
               [area_km2 |-> AreaOf(raw_data),
                province |-> Get(geo_commune_info, "province",
                                 Get(commune_info, "province", "None")),
                region   |-> Get(geo_commune_info, "region",
                                 Get(commune_info, "region", "None"))])

\* a try/except around a processor that leaves None
OrNone(r) == IF Raised(r) THEN None ELSE r.val

\* what a try/except around a processor leaves: its value, or {}
OrEmpty(r) == IF Raised(r) THEN EmptyDict ELSE r.val

\* a process_data with one try around the five processors: the first
\* exception leaves every section empty
ProcessedSections_one_try(raw_data) ==
    [real_estate_market   |-> EmptyDict,
     building_development |-> EmptyDict,
     demographics         |-> EmptyDict,
     economic_indicators  |-> EmptyDict,
     geographical_context |-> EmptyDict,
     investment_analysis  |-> EmptyDict,
     raised |-> IF Raised(Economics_process_data(raw_data.economics))
                THEN {"economics"} ELSE {"building"}]

\* process_data, lines 174-226: the five processors, each in its try/except.
\* raised is the set of processors whose call raised.
ProcessedSections(raw_data) ==
    Bind([real_estate_processed \in {RealEstate_process_data(raw_data.real_estate)} |->
    Bind([demographics_result \in
            {Demographics_process_data(raw_data.demographics, AreaOf(raw_data))} |->
    Bind([economics_result \in {Economics_process_data(raw_data.economics)} |->
    Bind([building_result \in
            {BuildingDev_process_data(raw_data.building, real_estate_processed)} |->
    Bind([investment_result \in
            {Investment_process_data(
                real_estate_processed, OrEmpty(economics_result),
                Get(OrEmpty(demographics_result), "demographics", EmptyDict),
                OrEmpty(building_result))} |->
        LET geographical_processed ==
                Get(OrEmpty(demographics_result), "geographical_context", EmptyDict)
        IN  [real_estate_market   |-> real_estate_processed,
             building_development |-> OrEmpty(building_result),
             demographics |-> Get(OrEmpty(demographics_result), "demographics", EmptyDict),
             economic_indicators  |-> OrEmpty(economics_result),
             geographical_context |->
                IF ~IsEmpty(geographical_processed)
                THEN Update(geographical_processed,
                            [sectors |-> [statistical_sectors |->
                                            raw_data.geography.statistical_sectors]])
                ELSE geographical_processed,
             investment_analysis  |-> OrEmpty(investment_result),
             raised |-> {n \in {"demographics", "economics", "building", "investment"} :
                           Raised(CASE n = "demographics" -> demographics_result
                                    [] n = "economics"    -> economics_result
                                    [] n = "building"     -> building_result
                                    [] OTHER              -> investment_result)}]])])])])])

Sections ==
    {"real_estate_market", "building_development", "demographics", "economic_indicators",
     "geographical_context", "investment_analysis"}

\* process_data, lines 229-240: the metadata and the report
AssembleReport(sections, commune_info, data_periods, today) ==
    Bind([metadata \in {create_metadata(commune_info, data_periods, today)} |->
        IF Raised(metadata) THEN metadata
        ELSE Ok(Update([k \in Sections |-> sections[k]], [metadata |-> metadata.val]))])

\* json.dumps(data, indent = 2, ...)
dumps(data) == [indent |-> 2, document |-> data]

\* a generate_for_commune that goes from extraction straight to the metadata
StepAfter_without_processing(outcome, next) ==
    IF Raised(outcome) THEN "Failed"
    ELSE IF next = "ProcessAll" THEN "AssembleMetadata" ELSE next

\* the try/except of generate_for_commune: an exception of a step ends the
\* municipality as Failed, otherwise the run goes on to the next step
StepAfter(outcome, next) == IF Raised(outcome) THEN "Failed" ELSE next

-----------------------------------------------------------------------------
(***************************************************************************)
(* The run of main(): one generator, one municipality or a batch.          *)
(***************************************************************************)
VARIABLES
    args,          \* the command line: commune, province, and the period options
    outage,        \* the warehouse is unreachable during the whole run
    now,           \* the clock: the date of the day
    pc,            \* main: "main", "listing", "commune", "summary", "done", "crashed"
    communes,      \* generate_all: the listed municipalities
    idx,           \* generate_all: position of the loop in communes
    results,       \* generate_all: commune id -> bool
    errors,        \* history: commune id -> the exception that ended it, or ""
    files,         \* the output directory: the paths written so far
    summary,       \* what main logs at the end
    commune_id,    \* generate_for_commune: its argument
    step,          \* generate_for_commune: the step to run next, or Done / Failed
    commune_info,  \* generate_for_commune: its locals
    output_path,
    raw_data,
    sections,
    report,
    json_string,
    written,       \* the text of the file written for the current municipality
    profile,       \* the warehouse profile of the current municipality
    faults,        \* the fault set met by the listing or the current municipality
    trace,         \* history: the steps run for the current municipality
    exc,           \* history: the exception that ended the municipality or the run
    given,         \* the functions called on their own: their arguments
    returned,      \* the functions called on their own: function -> what it returned
    sessions,      \* the sessions made by SessionLocal(): what was done with each
    frames,        \* the get_db_session scopes entered and not yet left
    raising,       \* the exception in flight in a scope, or "none"
    disk           \* the output directory: path -> the text the file holds

\* the state of main and generate_all
mainVars == <<args, outage, now, pc, communes, idx, results, errors, files, summary>>

\* the state of one call of generate_for_commune
callVars == <<commune_id, step, commune_info, output_path, raw_data, sections, report,
              json_string, written, profile, faults, trace, exc>>

\* the state of the processors called on their own
procVars == <<given, returned>>

\* the state of the session scopes
sessionVars == <<sessions, frames, raising>>

\* the contents of the output directory
diskVars == <<disk>>

vars == <<mainVars, callVars, procVars, sessionVars, diskVars>>

\* the period options drawn: none, a quarter before the rows of a "recent"
\* municipality begin, one per malformed shape, one year that dim_date does
\* not hold
PeriodOptions ==
    {EmptyDict,
     [real_estate_data  |-> <<"2", "0", "2", "1", "-", "Q", "4">>],
     [real_estate_data  |-> <<"2", "0", "a", "4", "-", "Q", "1">>],
     [real_estate_data  |-> <<"2", "0", "2", "4", "Q", "4">>],
     [economic_data     |-> <<"a", "b", "c">>],
     [demographic_data  |-> <<"2", "0", "2", "4", "-", "Q", "1">>],
     [construction_data |-> <<"2", "0", "2", "4">>],
     [tax_data          |-> <<"1", "9", "9", "0">>]}

\* get_custom_periods: DEFAULT_PERIOD with the options given
get_custom_periods(options) == Update(DEFAULT_PERIOD, options)

data_periods == get_custom_periods(args.periods)

\* The fault sets the processing of one municipality (or the listing) may
\* meet: every query point in an outage, else at most one failing query
\* point, which fails for as long as that municipality is processed.  Runs
\* with a period option meet no fault besides the outage, and neither do the
\* runs on a warehouse whose contents are fixed (given.profile).
FaultSets ==
    IF outage THEN {QueryPoints}
    ELSE IF ~IsEmpty(args.periods) \/ Has(given, "profile") THEN {{}}
    ELSE {{}} \cup {{q} : q \in QueryPoints}

\* The fact rows a municipality may have: those the run fixes
\* (given.profile), else any.
ProfilesOf(c) ==
    IF c \notin Communes THEN {"none"}
    ELSE IF Has(given, "profile") THEN {given.profile}
    ELSE Profiles

\* nothing of a run has happened yet
NotStarted ==
    /\ communes = <<>>
    /\ idx = 0
    /\ results = EmptyDict
    /\ errors = EmptyDict
    /\ files = {}
    /\ summary = EmptyDict
    /\ commune_id = NoCommune
    /\ step = "Idle"
    /\ commune_info = EmptyDict
    /\ output_path = <<>>
    /\ sections = EmptyDict
    /\ report = EmptyDict
    /\ json_string = EmptyDict
    /\ written = EmptyDict
    /\ profile = "none"
    /\ faults = {}
    /\ trace = <<>>
    /\ exc = ""
    /\ sessions = <<>>
    /\ frames = <<>>
    /\ raising = "none"
    /\ disk = EmptyDict

Init ==
    /\ args \in [commune : {NoCommune} \cup Communes \cup {MaxCommunes + 1},
                 province : {"None"} \cup Provinces,
                 periods : PeriodOptions]
    /\ args.commune # NoCommune => args.province = "None"
    /\ outage \in BOOLEAN
    /\ now = [year |-> 2024, month |-> 12, day |-> 31]
    /\ pc = "main"
    /\ NotStarted
    /\ raw_data = EmptyDict
    /\ given = EmptyDict
    /\ returned = EmptyDict

\* the entry of generate_for_commune(c)
Enter(c) ==
    /\ commune_id' = c
    /\ step' = "ResolveInfo"
    /\ commune_info' = EmptyDict
    /\ output_path' = <<>>
    /\ raw_data' = EmptyDict
    /\ sections' = EmptyDict
    /\ report' = EmptyDict
    /\ json_string' = EmptyDict
    /\ written' = EmptyDict
    /\ profile' = "none"
    /\ faults' = {}
    /\ trace' = <<>>
    /\ exc' = ""

\* main builds the generator; generate() dispatches on commune_id
Start ==
    /\ pc = "main"
    /\ IF args.commune # NoCommune
       THEN pc' = "commune" /\ Enter(args.commune)
       ELSE pc' = "listing" /\ UNCHANGED callVars
    /\ UNCHANGED <<args, outage, now, communes, idx, results, errors, files, summary>>
    /\ UNCHANGED <<procVars, sessionVars, diskVars>>

\* generate_all, lines 327-334: the listing, outside any try
ListCommunes ==
    /\ pc = "listing"
    /\ \E f \in FaultSets :
         \E listed \in {get_communes(NoCommune, args.province, f)} :
             IF Raised(listed)
             THEN /\ pc' = "crashed"
                  /\ faults' = f
                  /\ exc' = listed.exc
                  /\ UNCHANGED <<communes, idx, commune_id, step, commune_info, output_path,
                                 raw_data, sections, report, json_string, written, profile,
                                 trace>>
             ELSE IF Len(listed.val) = 0
             THEN /\ pc' = "summary"
                  /\ UNCHANGED <<communes, idx, callVars>>
             ELSE /\ pc' = "commune"
                  /\ communes' = listed.val
                  /\ idx' = 1
                  /\ Enter(listed.val[1].commune_id)
    /\ UNCHANGED <<args, outage, now, results, errors, files, summary>>
    /\ UNCHANGED <<procVars, sessionVars, diskVars>>

\* generate_for_commune, lines 292-296: get_commune_info, and the early
\* return when it found nothing.  The warehouse is read for this municipality
\* from here on: its profile and the fault set it meets are drawn now.
ResolveInfo ==
    /\ pc = "commune" /\ step = "ResolveInfo"
    /\ \E f \in FaultSets,
          p \in ProfilesOf(commune_id) :
         \E info \in {get_commune_info(commune_id, f)} :
             /\ faults' = f
             /\ profile' = p
             /\ exc' = info.exc
             /\ IF Raised(info)
                THEN /\ step' = StepAfter(info, "ExtractAll")
                     /\ UNCHANGED <<commune_info, output_path>>
                ELSE /\ commune_info' = info.val.commune_info
                     /\ output_path' = info.val.output_path
                     /\ step' = IF IsEmpty(info.val.commune_info) THEN "Failed"
                                ELSE "ExtractAll"
    /\ trace' = Append(trace, "ResolveInfo")
    /\ UNCHANGED <<mainVars, commune_id, raw_data, sections, report, json_string, written>>
    /\ UNCHANGED <<procVars, sessionVars, diskVars>>

\* line 299: extract_all_data
ExtractAll ==
    /\ pc = "commune" /\ step = "ExtractAll"
    /\ \E extracted \in {extract_all_data(commune_id, profile, data_periods, faults)} :
           /\ exc' = extracted.exc
           /\ raw_data' = extracted.val
           /\ step' = StepAfter(extracted, "ProcessAll")
    /\ trace' = Append(trace, "ExtractAll")
    /\ UNCHANGED <<mainVars, commune_id, commune_info, output_path, sections, report,
                   json_string, written, profile, faults>>
    /\ UNCHANGED <<procVars, sessionVars, diskVars>>

\* line 302, first part: process_data up to the last processor
ProcessAll ==
    /\ pc = "commune" /\ step = "ProcessAll"
    /\ commune_info' = UpdatedCommuneInfo(raw_data, commune_info)
    /\ sections' = ProcessedSections(raw_data)
    /\ step' = "AssembleMetadata"
    /\ trace' = Append(trace, "ProcessAll")
    /\ UNCHANGED <<mainVars, commune_id, output_path, raw_data, report, json_string,
                   written, profile, faults, exc>>
    /\ UNCHANGED <<procVars, sessionVars, diskVars>>

\* line 302, second part: create_metadata and the report
AssembleMetadata ==
    /\ pc = "commune" /\ step = "AssembleMetadata"
    /\ \E assembled \in {AssembleReport(sections, commune_info, data_periods, now)} :
           /\ exc' = assembled.exc
           /\ report' = assembled.val
           /\ step' = StepAfter(assembled, "Serialize")
    /\ trace' = Append(trace, "AssembleMetadata")
    /\ UNCHANGED <<mainVars, commune_id, commune_info, output_path, raw_data, sections,
                   json_string, written, profile, faults>>
    /\ UNCHANGED <<procVars, sessionVars, diskVars>>

\* save_json, lines 260-268: the text of the report
Serialize ==
    /\ pc = "commune" /\ step = "Serialize"
    /\ json_string' = dumps(report)
    /\ step' = "Write"
    /\ trace' = Append(trace, "Serialize")
    /\ UNCHANGED <<mainVars, commune_id, commune_info, output_path, raw_data, sections,
                   report, written, profile, faults, exc>>
    /\ UNCHANGED <<procVars, sessionVars, diskVars>>

\* what a file holds when the writing of the text to it was cut short: the
\* text as far as it got, none of it at the least and never the whole
Cut(text) == [cut_from |-> text]

\* The ways save_json, lines 270-279, ends: the file is opened and the text
\* written to it ("written"); the file system refuses to open the file
\* ("refused"); or open(output_path, 'w') has emptied the file and the
\* writing of the text, or the flush when the file is closed, fails ("cut").
\* save_json catches the error of the last two and returns False.
WriteOutcomes == {"written", "refused", "cut"}

Write ==
    /\ pc = "commune" /\ step = "Write"
    /\ \E outcome \in WriteOutcomes :
         CASE outcome = "written" ->
                /\ files' = files \cup {output_path}
                /\ disk' = Update(disk, [p \in {output_path} |-> json_string])
                /\ written' = json_string
                /\ step' = "Done"
                /\ exc' = exc
           [] outcome = "refused" ->
                /\ UNCHANGED <<files, disk, written>>
                /\ step' = "Failed"
                /\ exc' = "OSError"
           [] outcome = "cut" ->
                /\ disk' = Update(disk, [p \in {output_path} |-> Cut(json_string)])
                /\ UNCHANGED <<files, written>>
                /\ step' = "Failed"
                /\ exc' = "OSError"
    /\ trace' = Append(trace, "Write")
    /\ UNCHANGED <<args, outage, now, pc, communes, idx, results, errors, summary, commune_id,
                   commune_info, output_path, raw_data, sections, report, json_string,
                   profile, faults>>
    /\ UNCHANGED <<procVars, sessionVars>>

\* generate_for_commune has returned
Returned == step \in {"Done", "Failed"}

\* a generate_for_commune whose except clause returned True
result_true_on_exception == step = "Done" \/ exc # ""

\* the bool it returned
result == step = "Done"

\* generate_all, lines 343-348: the result is stored and the loop goes on
NextCommune ==
    /\ pc = "commune" /\ Returned /\ args.commune = NoCommune
    /\ results' = Update(results, [c \in {commune_id} |-> result])
    /\ errors' = Update(errors, [c \in {commune_id} |-> exc])
    /\ IF idx < Len(communes)
       THEN /\ idx' = idx + 1
            /\ pc' = "commune"
            /\ Enter(communes[idx + 1].commune_id)
       ELSE /\ pc' = "summary"
            /\ UNCHANGED <<idx, callVars>>
    /\ UNCHANGED <<args, outage, now, communes, files, summary>>
    /\ UNCHANGED <<procVars, sessionVars, diskVars>>

\* generate() hands back the bool of the one municipality
ReturnSingle ==
    /\ pc = "commune" /\ Returned /\ args.commune # NoCommune
    /\ pc' = "summary"
    /\ UNCHANGED <<args, outage, now, communes, idx, results, errors, files, summary, callVars>>
    /\ UNCHANGED <<procVars, sessionVars, diskVars>>

\* main, lines 227-236: the summary
Summarize ==
    /\ pc = "summary"
    /\ summary' = IF args.commune # NoCommune
                  THEN [success |-> result]
                  ELSE [success_count |-> Cardinality({c \in DOMAIN results : results[c]}),
                        total_count   |-> Cardinality(DOMAIN results)]
    /\ pc' = "done"
    /\ UNCHANGED <<args, outage, now, communes, idx, results, errors, files, callVars>>
    /\ UNCHANGED <<procVars, sessionVars, diskVars>>

Next ==
    \/ Start
    \/ ListCommunes
    \/ ResolveInfo
    \/ ExtractAll
    \/ ProcessAll
    \/ AssembleMetadata
    \/ Serialize
    \/ Write
    \/ NextCommune
    \/ ReturnSingle
    \/ Summarize

Spec == Init /\ [][Next]_vars

-----------------------------------------------------------------------------
(***************************************************************************)
(* main() run twice for one municipality with the same options, on a       *)
(* warehouse whose contents do not change; the clock may go on between     *)
(* the two runs.                                                           *)
(***************************************************************************)
Dates ==
    {[year |-> 2024, month |-> 12, day |-> 30], [year |-> 2024, month |-> 12, day |-> 31],
     [year |-> 2025, month |-> 1, day |-> 1]}

\* the date d is not before the date e
NotBefore(d, e) ==
    \/ d.year > e.year
    \/ d.year = e.year /\ d.month > e.month
    \/ d.year = e.year /\ d.month = e.month /\ d.day >= e.day

RerunInit ==
    /\ args \in [commune : Communes \cup {MaxCommunes + 1}, province : {"None"},
                 periods : PeriodOptions]
    /\ outage = FALSE
    /\ now \in Dates
    /\ pc = "main"
    /\ NotStarted
    /\ raw_data = EmptyDict
    /\ given \in [profile : Profiles]
    /\ returned = EmptyDict

\* The first run has ended: what it left is kept, and main is started again.
Restart ==
    /\ pc = "done" /\ returned = EmptyDict
    /\ returned' = [first |-> [success |-> summary.success, output_path |-> output_path,
                               written |-> written]]
    /\ \E later \in {d \in Dates : NotBefore(d, now)} : now' = later
    /\ pc' = "main"
    /\ summary' = EmptyDict
    /\ UNCHANGED <<args, outage, communes, idx, results, errors, files, callVars, given,
                   sessionVars, diskVars>>

RerunNext ==
    \/ Start
    \/ ResolveInfo
    \/ ExtractAll
    \/ ProcessAll
    \/ AssembleMetadata
    \/ Serialize
    \/ Write
    \/ ReturnSingle
    \/ Summarize
    \/ Restart

RerunSpec == RerunInit /\ [][RerunNext]_vars

-----------------------------------------------------------------------------
(***************************************************************************)
(* The processors called on their own.  process_data of each processor is  *)
(* applied to extracted data in every shape of its period buckets, and     *)
(* the investment processor to sections that are empty or missing as well  *)
(* as to the sections the other processors returned.                       *)
(***************************************************************************)
\* The shapes of a record of buckets: the record itself may be {} (current
\* "no_record"), its current_data populated, empty or absent, and its
\* earlier buckets populated, empty at five years, or all empty.
Shapes ==
    {sh \in [current : {"populated", "empty", "absent", "no_record"},
             earlier : {"populated", "no_five_year", "empty"}] :
        sh.current = "no_record" => sh.earlier = "empty"}

\* a record of buckets in a shape; a data set without buckets is kept when
\* the shape has current data and is {} otherwise
Shaped(dataset, shape) ==
    IF ~Has(dataset, "current_data")
    THEN IF shape.current = "populated" THEN dataset ELSE EmptyDict
    ELSE [k \in DOMAIN dataset \ (IF shape.current = "absent" THEN {"current_data"} ELSE {}) |->
            IF k = "current_data"
            THEN IF shape.current = "empty" THEN EmptyDict ELSE dataset[k]
            ELSE IF k = "five_year_data" /\ shape.earlier # "populated" THEN EmptyDict
            ELSE IF k = "previous_year_data" /\ shape.earlier = "empty" THEN EmptyDict
            ELSE dataset[k]]

\* the extracted data of one domain in the shape given; raw_data holds the
\* data extracted for a municipality that has rows at every date
Extracted(domain) ==
    IF given.shape.current = "no_record" THEN EmptyDict
    ELSE [k \in DOMAIN raw_data[domain] |-> Shaped(raw_data[domain][k], given.shape)]

InvestmentInputs ==
    {"real_estate_data", "economic_data", "demographic_data", "building_dev_data"}

\* how the investment processor gets each of its four sections: {} or None,
\* or all four as the other processors returned them
InvestmentArguments ==
    [InvestmentInputs -> {"empty", "none"}] \cup {[k \in InvestmentInputs |-> "processed"]}

\* one argument of the investment processor: {} or None, or the section
\* as the generator keeps it
InvestmentArgument(k, processed) ==
    CASE given.investment[k] = "empty" -> EmptyDict
      [] given.investment[k] = "none"  -> None
      [] OTHER -> processed

ProcInit ==
    /\ args = [commune |-> NoCommune, province |-> "None", periods |-> EmptyDict]
    /\ outage = FALSE
    /\ now = [year |-> 2024, month |-> 12, day |-> 31]
    /\ pc = "processors"
    /\ NotStarted
    /\ raw_data = extract_all_data(1, "full", DEFAULT_PERIOD, {}).val
    /\ given \in [shape : Shapes, investment : InvestmentArguments]
    /\ returned = EmptyDict

\* a processor is called once, and what it returned or raised is kept
Call(processor, outcome) ==
    /\ pc = "processors"
    /\ ~Has(returned, processor)
    /\ returned' = Update(returned, [p \in {processor} |-> outcome])
    /\ UNCHANGED <<given, mainVars, callVars, sessionVars, diskVars>>

CallRealEstate ==
    Call("real_estate", Ok(RealEstate_process_data(Extracted("real_estate"))))

CallDemographics ==
    Call("demographics",
         Demographics_process_data(Extracted("demographics"), AreaOf(raw_data)))

CallEconomics ==
    Call("economics", Economics_process_data(Extracted("economics")))

CallBuildingDev ==
    Call("building", BuildingDev_process_data(Extracted("building"), EmptyDict))

CallInvestment ==
    Call("investment",
         Investment_process_data(
            InvestmentArgument("real_estate_data",
                RealEstate_process_data(Extracted("real_estate"))),
            InvestmentArgument("economic_data",
                OrEmpty(Economics_process_data(Extracted("economics")))),
            InvestmentArgument("demographic_data",
                Get(OrEmpty(Demographics_process_data(Extracted("demographics"),
                                                      AreaOf(raw_data))),
                    "demographics", EmptyDict)),
            InvestmentArgument("building_dev_data",
                OrEmpty(BuildingDev_process_data(Extracted("building"), EmptyDict)))))

ProcNext ==
    \/ CallRealEstate
    \/ CallDemographics
    \/ CallEconomics
    \/ CallBuildingDev
    \/ CallInvestment

ProcSpec == ProcInit /\ [][ProcNext]_vars

-----------------------------------------------------------------------------
(***************************************************************************)
(* The helpers of the processors called on their own: one call of one      *)
(* helper, given.fn, on the arguments in given.                            *)
(***************************************************************************)
\* the numbers given to calculate_change
ChangeValues ==
    {None} \cup {Num(n) : n \in {-100, -3, -1, 0, 1, 2, 3, 100, 110, 2999, 3000}}

ChangeInputs ==
    [fn : {"calculate_change"}, current_value : ChangeValues, previous_value : ChangeValues]

\* the text "YYYY-QK" of a quarter
QuarterText(year, quarter) == Padded(year, 4) \o <<"-", "Q">> \o PyStr(quarter)

\* quarterly periods and numbers of periods back given to _get_previous_period
PreviousPeriodInputs ==
    [fn : {"_get_previous_period"}, year : {1, 1999, 2024}, quarter : 1..4,
     num_periods_back : 0..MaxPeriodsBack]

\* the exact ages of an ages_data, one of them no number
AgeKeys == {<<"5">>, <<"3", "0">>, <<"7", "0">>, <<"x">>}

\* what ages_data holds for an age: the population of each sex
SexesOptions ==
    {EmptyDict,
     [sexes |-> EmptyDict],
     [sexes |-> [M |-> [population |-> 50]]],
     [sexes |-> [M |-> [population |-> 50], F |-> [population |-> 50]]],
     [sexes |-> [M |-> [population |-> 20], F |-> EmptyDict]]}

MedianAgeInputs ==
    [fn : {"calculate_median_age"},
     ages_data : UNION {[keys -> SexesOptions] : keys \in SUBSET AgeKeys},
     total_population : {0 - 1, 0, 1, 40, 100, 150, 151, 400}]

\* sum(sex_data.get('population', 0) for sex_data in age_data.get('sexes', {}).values())
RECURSIVE SumPopulation(_)
SumPopulation(sexes) ==
    IF sexes = EmptyDict THEN 0
    ELSE LET sex == CHOOSE s \in DOMAIN sexes : TRUE
         IN  Get(sexes[sex], "population", 0)
             + SumPopulation([s \in DOMAIN sexes \ {sex} |-> sexes[s]])

\* ages_data with the sexes of each age summed
SexesSummed(ages_data) ==
    [a \in DOMAIN ages_data |-> Num(SumPopulation(Get(ages_data[a], "sexes", EmptyDict)))]

\* exact ages at the edges of the bands of age_group_mapping, and past them
BandAges ==
    {<<"0">>, <<"1", "7">>, <<"1", "8">>, <<"3", "5">>, <<"3", "6">>, <<"6", "5">>,
     <<"6", "6">>, <<"1", "2", "0">>, <<"1", "2", "1">>}

BandSexes ==
    {[sexes |-> [M |-> [population |-> 20]]],
     [sexes |-> [M |-> [population |-> 50], F |-> [population |-> 50]]]}

\* the distributions given to process_age_structure: up to MaxAges exact ages
AgeStructureInputs ==
    [fn : {"process_age_structure"},
     ages_data : UNION {[keys -> BandSexes] :
                          keys \in {k \in SUBSET BandAges : Cardinality(k) <= MaxAges}},
     with_previous : BOOLEAN]

\* the changes given to classify_trend, in percent
TrendChanges ==
    {None, Rat(0 - 21, 2), Rat(1, 2)}
    \cup {Num(n) : n \in {0 - 20, 0 - 11, 0 - 10, 0 - 9, 0 - 6, 0 - 5, 0 - 4, 0, 1, 5, 9, 10, 11}}

\* classify_trend is given a pair of changes, one call for each, with the
\* default thresholds or with (+10, -5)
TrendInputs ==
    [fn : {"classify_trend"}, first : TrendChanges, second : TrendChanges,
     threshold_positive : {5, 10}, threshold_negative : {0 - 5}]

\* values of the rental demand index, in hundredths
DemandIndexInputs ==
    [fn : {"rental_growth_potential"},
     rental_demand_index : {Rat(n, 100) : n \in {0, 20, 29, 30, 35, 40, 50, 60, 65, 70, 75, 100}}]

\* year-over-year permit growths, in percent, and numbers of new dwellings
ConstructionInputs ==
    [fn : {"process_construction_activity"},
     trend_yoy : {0 - 25, 0 - 21, 0 - 20, 0 - 15, 0 - 10, 0, 10, 11, 20, 21, 25},
     dwellings : {0, 50, 51, 100, 101}]

\* numbers of transactions of the last period and their yearly change, in percent
LiquidityInputs ==
    [fn : {"process_risk_assessment"},
     transactions : {0, 5, 9, 10, 19, 20, 50, 51, 100, 101},
     transaction_change : {0 - 11, 0 - 10, 0 - 6, 0 - 5, 0, 5, 6, 10, 11}]

HelperInputs ==
    ChangeInputs \cup PreviousPeriodInputs \cup MedianAgeInputs \cup AgeStructureInputs
    \cup TrendInputs \cup DemandIndexInputs \cup ConstructionInputs \cup LiquidityInputs

HelperInit ==
    /\ args = [commune |-> NoCommune, province |-> "None", periods |-> EmptyDict]
    /\ outage = FALSE
    /\ now = [year |-> 2024, month |-> 12, day |-> 31]
    /\ pc = "helpers"
    /\ NotStarted
    /\ raw_data = EmptyDict
    /\ given \in HelperInputs
    /\ returned = EmptyDict

\* the helper is called once, and what it returned is kept
CallHelper(fn, value) ==
    /\ pc = "helpers" /\ given.fn = fn
    /\ returned = EmptyDict
    /\ returned' = [h \in {fn} |-> value]
    /\ UNCHANGED <<given, mainVars, callVars, sessionVars, diskVars>>

CallCalculateChange ==
    /\ given.fn = "calculate_change"
    /\ CallHelper("calculate_change",
                  calculate_change(given.current_value, given.previous_value))

CallGetPreviousPeriod ==
    /\ given.fn = "_get_previous_period"
    /\ CallHelper("_get_previous_period",
                  _get_previous_period(QuarterText(given.year, given.quarter),
                                       given.num_periods_back))

CallCalculateMedianAge ==
    /\ given.fn = "calculate_median_age"
    /\ CallHelper("calculate_median_age",
                  calculate_median_age(SexesSummed(given.ages_data),
                                       Num(given.total_population)))

\* the population bucket of a distribution: its ages and their total
PopulationBucket(ages_data) ==
    Bind([summed \in {SexesSummed(ages_data)} |->
            [ages_data |-> summed, total_population |-> SumAges(summed, DOMAIN summed)]])

CallProcessAgeStructure ==
    /\ given.fn = "process_age_structure"
    /\ CallHelper("process_age_structure",
                  process_age_structure(
                      IF given.with_previous
                      THEN [current_data |-> PopulationBucket(given.ages_data),
                            previous_year_data |-> PopulationBucket(given.ages_data)]
                      ELSE [current_data |-> PopulationBucket(given.ages_data)]))

CallClassifyTrend ==
    /\ given.fn = "classify_trend"
    /\ CallHelper("classify_trend",
                  [first  |-> classify_trend(given.first, given.threshold_positive,
                                             given.threshold_negative),
                   second |-> classify_trend(given.second, given.threshold_positive,
                                             given.threshold_negative)])

CallRentalGrowthPotential ==
    /\ given.fn = "rental_growth_potential"
    /\ CallHelper("rental_growth_potential", rental_growth_potential(given.rental_demand_index))

\* the processed permits that hold a growth and a number of new dwellings
PermitsWith(trend_yoy, dwellings) ==
    [summary |-> [trend_yoy |-> Num(trend_yoy)],
     counts  |-> [residential |-> [new_construction |-> [dwellings |-> Num(dwellings)]]]]

CallProcessConstructionActivity ==
    /\ given.fn = "process_construction_activity"
    /\ CallHelper("process_construction_activity",
                  process_construction_activity(PermitsWith(given.trend_yoy, given.dwellings)))

\* the processed real-estate section that holds the transactions of the
\* last period and their year-over-year change
OverviewWith(transactions, transaction_change) ==
    [municipality_overview |->
        [last_period |-> [total_transactions |-> Num(transactions)],
         historical_trends |->
            [year_over_year |-> [transaction_change_pct |-> Num(transaction_change)]]]]

CallProcessRiskAssessment ==
    /\ given.fn = "process_risk_assessment"
    /\ CallHelper("process_risk_assessment",
                  process_risk_assessment(
                      OverviewWith(given.transactions, given.transaction_change),
                      EmptyDict, EmptyDict))

HelperNext ==
    \/ CallProcessRiskAssessment
    \/ CallProcessConstructionActivity
    \/ CallCalculateChange
    \/ CallGetPreviousPeriod
    \/ CallCalculateMedianAge
    \/ CallProcessAgeStructure
    \/ CallClassifyTrend
    \/ CallRentalGrowthPotential

HelperSpec == HelperInit /\ [][HelperNext]_vars

-----------------------------------------------------------------------------
(***************************************************************************)
(* The JSON utilities (utils/json_utils.py).  A JSON value is an object    *)
(* with its fields, a number, or a string; a file is unreadable (missing   *)
(* or malformed), holds the empty object, or holds a report with its       *)
(* commune name and two entries, "a" and "b".                              *)
(***************************************************************************)
JObject(fields) == [type |-> "object", fields |-> fields]

JNumber(n) == [type |-> "number", value |-> Num(n)]

JString(s) == [type |-> "string", text |-> s]

\* float('inf') and float('-inf'), as numbers with the comparison below
float_inf == [none |-> FALSE, num |-> 1, den |-> 0]

float_neg_inf == [none |-> FALSE, num |-> 0 - 1, den |-> 0]

\* a < b for numbers that are not None, infinite ones included
RLT(a, b) == a.num * b.den < b.num * a.den

FileKinds ==
    {[content |-> "unreadable", a |-> "absent", b |-> 0],
     [content |-> "empty", a |-> "absent", b |-> 0]}
    \cup [content : {"report"}, a : {"absent", "object1", "object2", "number", "string"},
          b : 0..2]

FileLists == UNION {[1..n -> FileKinds] : n \in 0..MaxFiles}

CommuneNames == <<"c1", "c2", "c3", "c4">>

\* the document in the j-th file of a list
Document(kind, j) ==
    IF kind.content # "report" THEN JObject(EmptyDict)
    ELSE JObject(
           Update(Update([metadata |-> JObject([commune_name |-> JString(CommuneNames[j])])],
                         CASE kind.a = "absent"  -> EmptyDict
                           [] kind.a = "object1" -> [a |-> JObject([v |-> JNumber(1)])]
                           [] kind.a = "object2" -> [a |-> JObject([v |-> JNumber(2)])]
                           [] kind.a = "number"  -> [a |-> JNumber(3)]
                           [] OTHER              -> [a |-> JString("text")]),
                  IF kind.b = 0 THEN EmptyDict ELSE [b |-> JNumber(kind.b)]))

\* load_json: the document, or {} when the file cannot be read
load_json(kind, j) ==
    IF kind.content = "unreadable" THEN JObject(EmptyDict) ELSE Document(kind, j)

\* The loop over the sections of a metric path: Ok([valid, curr]), or the
\* TypeError of "section in curr" for a number.  A string holds no section
\* name.
RECURSIVE Navigate(_, _)
Navigate(curr, path) ==
    IF path = <<>> THEN Ok([valid |-> TRUE, curr |-> curr])
    ELSE CASE curr.type = "object" ->
                IF Head(path) \in DOMAIN curr.fields
                THEN Navigate(curr.fields[Head(path)], Tail(path))
                ELSE Ok([valid |-> FALSE, curr |-> curr])
           [] curr.type = "string" -> Ok([valid |-> FALSE, curr |-> curr])
           [] OTHER -> Raise("TypeError")

\* the two tests on a numeric value of a metric
Extremes(entry, curr, commune_name) ==
    [min |-> IF RLT(curr, entry.min.value)
             THEN [value |-> curr, commune |-> commune_name] ELSE entry.min,
     max |-> IF RLT(entry.max.value, curr)
             THEN [value |-> curr, commune |-> commune_name] ELSE entry.max]

\* The loop over the metrics for one file, from the i-th metric on; an
\* exception ends it (the inner except clause goes on to the next file).
RECURSIVE ScanMetrics(_, _, _, _, _)
ScanMetrics(extremes, data, commune_name, metrics, i) ==
    IF i > Len(metrics) THEN extremes
    ELSE Bind([found \in {Navigate(data, metrics[i])} |->
            IF Raised(found) THEN extremes
            ELSE ScanMetrics(
                    IF found.val.valid /\ found.val.curr.type = "number"
                    THEN Update(extremes,
                                [m \in {metrics[i]} |->
                                    Extremes(extremes[metrics[i]], found.val.curr.value,
                                             commune_name)])
                    ELSE extremes,
                    data, commune_name, metrics, i + 1)])

\* the loop over the file_paths, from the j-th file on
RECURSIVE ScanFiles(_, _, _, _)
ScanFiles(extremes, file_paths, metrics, j) ==
    IF j > Len(file_paths) THEN extremes
    ELSE Bind([data \in {load_json(file_paths[j], j)} |->
            ScanFiles(
                ScanMetrics(extremes, data,
                            Get(Get(data.fields, "metadata", JObject(EmptyDict)).fields,
                                "commune_name", JString("Inconnu")).text,
                            metrics, 1),
                file_paths, metrics, j + 1)])

find_extreme_values(file_paths, metrics) ==
    Bind([extremes \in
            {ScanFiles([m \in {metrics[i] : i \in 1..Len(metrics)} |->
                          [min |-> [value |-> float_inf, commune |-> ""],
                           max |-> [value |-> float_neg_inf, commune |-> ""]]],
                       file_paths, metrics, 1)} |->
        [m \in DOMAIN extremes |->
            [min |-> IF extremes[m].min.value = float_inf
                     THEN [value |-> None, commune |-> extremes[m].min.commune]
                     ELSE extremes[m].min,
             max |-> IF extremes[m].max.value = float_neg_inf
                     THEN [value |-> None, commune |-> extremes[m].max.commune]
                     ELSE extremes[m].max]]])

\* a merge_json_files that appends every document loaded, empty or not
merge_json_files_appending_all(file_paths, today, ok) ==
    IF Len(file_paths) > 0 /\ ok
    THEN [result |-> TRUE,
          written |-> [metadata |-> [generated_date |-> get_current_date(today),
                                     source_files |-> Len(file_paths)],
                       communes |-> [j \in 1..Len(file_paths) |->
                                        load_json(file_paths[j], j)]]]
    ELSE [result |-> FALSE, written |-> EmptyDict]

\* merge_json_files: the bool returned and the document written to
\* output_file ({} when nothing is written); ok tells whether the file
\* system takes the write of save_json.
merge_json_files(file_paths, today, ok) ==
    LET loaded == [j \in 1..Len(file_paths) |-> load_json(file_paths[j], j)]
        non_empty(data) == data.fields # EmptyDict
    IN  Bind([merged_data \in {SelectSeq(loaded, non_empty)} |->
            IF merged_data # <<>> /\ ok
            THEN [result |-> TRUE,
                  written |-> [metadata |-> [generated_date |-> get_current_date(today),
                                             source_files |-> Len(merged_data)],
                               communes |-> merged_data]]
            ELSE [result |-> FALSE, written |-> EmptyDict]])

\* the metric paths "a.v" and "b"
Metrics == << <<"a", "v">>, <<"b">> >>

UtilInit ==
    /\ args = [commune |-> NoCommune, province |-> "None", periods |-> EmptyDict]
    /\ outage = FALSE
    /\ now = [year |-> 2024, month |-> 12, day |-> 31]
    /\ pc = "utils"
    /\ NotStarted
    /\ raw_data = EmptyDict
    /\ given \in [files : FileLists]
    /\ returned = EmptyDict

\* a utility is called once on the files, and what it returned is kept
CallUtil(fn, value) ==
    /\ pc = "utils"
    /\ ~Has(returned, fn)
    /\ returned' = Update(returned, [u \in {fn} |-> value])
    /\ UNCHANGED <<given, mainVars, callVars, sessionVars, diskVars>>

CallFindExtremeValues ==
    CallUtil("find_extreme_values", find_extreme_values(given.files, Metrics))

CallMergeJsonFiles ==
    \E ok \in BOOLEAN :
        CallUtil("merge_json_files", merge_json_files(given.files, now, ok))

UtilNext ==
    \/ CallFindExtremeValues
    \/ CallMergeJsonFiles

UtilSpec == UtilInit /\ [][UtilNext]_vars

-----------------------------------------------------------------------------
(***************************************************************************)
(* The session scopes (extractors/base.py).  A session is the sequence of  *)
(* what was done with it; a scope is a `with self.get_db_session()` block  *)
(* and has a body of steps.  execute_query opens a scope of its own, so a  *)
(* scope whose body queries has other scopes nested in it.                 *)
(***************************************************************************)
\* a step of a body: `back` is the number of years a date lookup goes back,
\* `try` numbers the try/except block the step is in (0: none), and a step
\* with `when` = "date" is run only if the last date lookup found a date
Op(op, back, try, when) == [op |-> op, back |-> back, try |-> try, when |-> when]

\* extract_population_data_for_period: three queries in one try block
PopulationQueries(try, when) ==
    <<Op("query", 0, try, when), Op("query", 0, try, when), Op("query", 0, try, when)>>

Body(scope) ==
    IF scope = "execute_query"
    THEN <<Op("execute", 0, 0, "always"), Op("return", 0, 0, "always")>>
    ELSE IF scope = "generate_all"
    THEN <<Op("execute", 0, 0, "always")>>
    ELSE <<Op("get_date_id", 0, 0, "always"), Op("return_unless_date", 0, 0, "always")>>
         \o PopulationQueries(1, "always")
         \o <<Op("int", 1, 0, "always"), Op("get_date_id", 1, 0, "always")>>
         \o PopulationQueries(2, "date")
         \o <<Op("int", 5, 0, "always"), Op("get_date_id", 5, 0, "always")>>
         \o PopulationQueries(3, "date")

Scopes == {"execute_query", "generate_all", "extract_population_structure"}

ScopePeriods ==
    {<<"2", "0", "2", "4">>, <<"2", "0", "0", "0">>, <<"1", "9", "9", "0">>,
     <<"2", "0", "2", "4", "-", "Q", "1">>, <<"2", "0", "a", "4", "-", "Q", "1">>,
     <<"a", "b", "c">>}

\* the number of the session whose query the warehouse fails, 0 for none
FailingOptions == 0..(Len(Body("extract_population_structure")) + 1)

ScopeInputs == [scope : Scopes, data_period : ScopePeriods, failing : FailingOptions]

Top == frames[Len(frames)]

TopOp == Body(Top.scope)[Top.at]

\* the scope is left without an exception: the end of the body, or a return
Leaves(frame) ==
    \/ frame.at > Len(Body(frame.scope))
    \/ /\ frame.at <= Len(Body(frame.scope))
       /\ LET o == Body(frame.scope)[frame.at]
          IN  \/ o.op = "return"
              \/ o.op = "return_unless_date" /\ frame.date = NoDate

\* the period a date lookup asks for
LookupPeriod(data_period, back) ==
    IF back = 0 THEN data_period ELSE PyStr(PyInt(data_period).val - back)

\* get_date_id before its query: "query", "none" (format not recognised) or
\* the exception of int()
DateLookup(period) ==
    IF Len(period) = 4 /\ isdigit(period) THEN "query"
    ELSE IF Len(period) = 7 /\ Slice(period, 4, 5) = <<"-">>
            /\ Slice(period, 5, 6) = <<"Q">> /\ isdigit(Slice(period, 6, 7))
    THEN IF Raised(PyInt(Slice(period, 0, 4))) THEN "ValueError" ELSE "query"
    ELSE "none"

\* the first step after the try block of the step at position `at`
AfterTry(scope, at) ==
    LET body == Body(scope)
        later == {i \in (at + 1)..Len(body) : body[i].try # body[at].try}
    IN  IF later = {} THEN Len(body) + 1 ELSE CHOOSE i \in later : \A j \in later : i <= j

Did(session, what) == [sessions EXCEPT ![session] = Append(@, what)]

WithTop(frame) == [frames EXCEPT ![Len(frames)] = frame]

\* get_db_session up to its yield: SessionLocal(), then the body
EnterScope(scope) ==
    /\ sessions' = Append(sessions, <<>>)
    /\ frames' = Append(frames, [scope |-> scope, at |-> 1, session |-> Len(sessions) + 1,
                                 date |-> NoDate, phase |-> "body"])
    /\ UNCHANGED raising

SessionInit ==
    /\ args = [commune |-> NoCommune, province |-> "None", periods |-> EmptyDict]
    /\ outage = FALSE
    /\ now = [year |-> 2024, month |-> 12, day |-> 31]
    /\ pc = "sessions"
    /\ NotStarted
    /\ raw_data = EmptyDict
    /\ given \in ScopeInputs
    /\ returned = EmptyDict

InScope == pc = "sessions" /\ frames # <<>>

InBody == InScope /\ Top.phase = "body" /\ raising = "none" /\ ~Leaves(Top)

\* the caller enters the scope
Acquire ==
    /\ pc = "sessions" /\ frames = <<>> /\ sessions = <<>>
    /\ EnterScope(given.scope)
    /\ UNCHANGED <<mainVars, callVars, procVars, diskVars>>

\* session.execute: the query runs, or the warehouse fails it
Execute ==
    /\ InBody /\ TopOp.op = "execute"
    /\ sessions' = Did(Top.session, "execute")
    /\ IF given.failing = Top.session
       THEN raising' = "SQLAlchemyError" /\ UNCHANGED frames
       ELSE frames' = WithTop([Top EXCEPT !.at = @ + 1]) /\ UNCHANGED raising
    /\ UNCHANGED <<mainVars, callVars, procVars, diskVars>>

\* int(self.data_period) - back
IntOfPeriod ==
    /\ InBody /\ TopOp.op = "int"
    /\ IF Raised(PyInt(given.data_period))
       THEN raising' = "ValueError" /\ UNCHANGED frames
       ELSE frames' = WithTop([Top EXCEPT !.at = @ + 1]) /\ UNCHANGED raising
    /\ UNCHANGED <<sessions, mainVars, callVars, procVars, diskVars>>

\* get_date_id up to its query
GetDateId ==
    /\ InBody /\ TopOp.op = "get_date_id"
    /\ LET looked == DateLookup(LookupPeriod(given.data_period, TopOp.back))
       IN  IF looked = "query" THEN EnterScope("execute_query")
           ELSE IF looked = "none"
           THEN /\ frames' = WithTop([Top EXCEPT !.at = @ + 1, !.date = NoDate])
                /\ UNCHANGED <<sessions, raising>>
           ELSE /\ raising' = looked
                /\ UNCHANGED <<sessions, frames>>
    /\ UNCHANGED <<mainVars, callVars, procVars, diskVars>>

\* `if not date_id: return {}` when a date was found: the body goes on
DateFound ==
    /\ InBody /\ TopOp.op = "return_unless_date"
    /\ frames' = WithTop([Top EXCEPT !.at = @ + 1])
    /\ UNCHANGED <<sessions, raising, mainVars, callVars, procVars, diskVars>>

\* self.execute_query(query, params), skipped when there is no date to ask for
Query ==
    /\ InBody /\ TopOp.op = "query"
    /\ IF TopOp.when = "date" /\ Top.date = NoDate
       THEN /\ frames' = WithTop([Top EXCEPT !.at = @ + 1])
            /\ UNCHANGED <<sessions, raising>>
       ELSE EnterScope("execute_query")
    /\ UNCHANGED <<mainVars, callVars, procVars, diskVars>>

\* after the yield, no exception: session.commit()
Commit ==
    /\ InScope /\ Top.phase = "body" /\ raising = "none" /\ Leaves(Top)
    /\ sessions' = Did(Top.session, "commit")
    /\ frames' = WithTop([Top EXCEPT !.phase = "finally"])
    /\ UNCHANGED <<raising, mainVars, callVars, procVars, diskVars>>

\* except SQLAlchemyError: session.rollback(), and the exception goes on
Rollback ==
    /\ InScope /\ Top.phase = "body" /\ raising = "SQLAlchemyError"
    /\ sessions' = Did(Top.session, "rollback")
    /\ frames' = WithTop([Top EXCEPT !.phase = "finally"])
    /\ UNCHANGED <<raising, mainVars, callVars, procVars, diskVars>>

\* what the caller of a scope does with its outcome: a date lookup keeps the
\* date, a try block swallows the exception, anything else lets it through
Resumed(frame, leaving) ==
    LET o == Body(frame.scope)[frame.at]
        found == get_date_id(LookupPeriod(given.data_period, o.back), {})
    IN  IF leaving # "none"
        THEN IF o.try # 0 THEN [frame EXCEPT !.at = AfterTry(frame.scope, frame.at)]
             ELSE frame
        ELSE IF o.op = "get_date_id" THEN [frame EXCEPT !.at = @ + 1, !.date = found.val]
        ELSE [frame EXCEPT !.at = @ + 1]

\* finally: session.close(); an exception that is not an SQLAlchemyError
\* comes here straight from the body
Close ==
    /\ InScope
    /\ \/ Top.phase = "finally"
       \/ Top.phase = "body" /\ raising \notin {"none", "SQLAlchemyError"}
    /\ sessions' = Did(Top.session, "close")
    /\ IF Len(frames) = 1
       THEN /\ frames' = <<>>
            /\ returned' = [raised |-> raising]
            /\ UNCHANGED raising
       ELSE LET caller == frames[Len(frames) - 1]
                swallowed == raising # "none" /\ Body(caller.scope)[caller.at].try # 0
            IN  /\ frames' = [SubSeq(frames, 1, Len(frames) - 1)
                                EXCEPT ![Len(frames) - 1] = Resumed(caller, raising)]
                /\ raising' = IF swallowed THEN "none" ELSE raising
                /\ UNCHANGED returned
    /\ UNCHANGED <<given, mainVars, callVars, diskVars>>

SessionNext ==
    \/ Acquire
    \/ Execute
    \/ IntOfPeriod
    \/ GetDateId
    \/ DateFound
    \/ Query
    \/ Commit
    \/ Rollback
    \/ Close

SessionSpec == SessionInit /\ [][SessionNext]_vars

-----------------------------------------------------------------------------
(***************************************************************************)
(* Loading generators/municipality.py and writing decimals as JSON.  The   *)
(* warehouse hands back SUM and ratio columns as decimal.Decimal values;   *)
(* json.dumps with the default encoder raises TypeError on one.            *)
(***************************************************************************)
\* a decimal.Decimal
JDecimal(n, d) == [type |-> "Decimal", value |-> Rat(n, d)]

\* the names that utils/json_utils.py defines
json_utils ==
    {"format_json", "save_json", "load_json", "validate_json_structure",
     "get_files_by_province", "merge_json_files", "extract_section", "find_extreme_values"}

\* from <module> import <name>
ImportFrom(module, name) == IF name \in module THEN Ok(name) ELSE Raise("ImportError")

\* the import statements of generators/municipality.py that name the JSON
\* utilities: the module is loaded, or the exception of the import leaves it
load_municipality == ImportFrom(json_utils, "DecimalEncoder")

RECURSIVE HasDecimal(_)
HasDecimal(value) ==
    IF value.type = "Decimal" THEN TRUE
    ELSE IF value.type = "object"
    THEN \E k \in DOMAIN value.fields : HasDecimal(value.fields[k])
    ELSE FALSE

\* json_utils.format_json: json.dumps with the default encoder
utils_format_json(data) == IF HasDecimal(data) THEN Raise("TypeError") ELSE Ok(dumps(data))

\* json_utils.save_json: the bool returned and the text written ({} when
\* nothing is written); ok tells whether the file system takes the write
utils_save_json(data, ok) ==
    LET text == utils_format_json(data)
    IN  IF Raised(text) \/ ~ok THEN [result |-> FALSE, written |-> EmptyDict]
        ELSE [result |-> TRUE, written |-> text.val]

ReportValues ==
    {JNumber(1), JString("x"), JDecimal(5, 2), JObject([v |-> JNumber(2)]),
     JObject([v |-> JDecimal(1, 3)])}

ReportInputs == {[data |-> JObject([a |-> x, b |-> y])] : x, y \in ReportValues}

EncoderInit ==
    /\ args = [commune |-> NoCommune, province |-> "None", periods |-> EmptyDict]
    /\ outage = FALSE
    /\ now = [year |-> 2024, month |-> 12, day |-> 31]
    /\ pc = "encoder"
    /\ NotStarted
    /\ raw_data = EmptyDict
    /\ given \in ReportInputs
    /\ returned = EmptyDict

CallOnce(fn, value) ==
    /\ pc = "encoder"
    /\ ~Has(returned, fn)
    /\ returned' = Update(returned, [u \in {fn} |-> value])
    /\ UNCHANGED <<given, mainVars, callVars, sessionVars, diskVars>>

\* main.py imports the generator
LoadMunicipality == CallOnce("municipality", load_municipality)

\* json_utils.save_json(data, output_path); what it returned is kept with
\* the answer of the file system
CallSaveJson ==
    \E ok \in BOOLEAN :
        CallOnce("save_json", [ok |-> ok] @@ utils_save_json(given.data, ok))

EncoderNext ==
    \/ LoadMunicipality
    \/ CallSaveJson

EncoderSpec == EncoderInit /\ [][EncoderNext]_vars

-----------------------------------------------------------------------------
(***************************************************************************)
(* Properties of a run of main().                                          *)
(***************************************************************************)
\* a batch run: no municipality id was given
Batch == args.commune = NoCommune

\* the ids of the municipalities listed
Listed == {communes[i].commune_id : i \in 1..Len(communes)}

StepOrder ==
    <<"ResolveInfo", "ExtractAll", "ProcessAll", "AssembleMetadata", "Serialize", "Write">>

\* the section of the report that a processor fills
SectionOf(processor) ==
    CASE processor = "demographics" -> "demographics"
      [] processor = "economics"    -> "economic_indicators"
      [] processor = "building"     -> "building_development"
      [] OTHER                      -> "investment_analysis"

C2_FixedOrder ==
    pc = "commune" =>
       /\ Len(trace) <= Len(StepOrder)
       /\ trace = SubSeq(StepOrder, 1, Len(trace))
       /\ ~Returned => step = StepOrder[Len(trace) + 1]
       /\ step = "Done" <=> (trace = StepOrder /\ written # EmptyDict)
       /\ step = "Done" => (written = json_string /\ output_path \in files)
       /\ (Len(trace) >= 1 /\ IsEmpty(commune_info)) =>
             /\ step = "Failed"
             /\ trace = <<"ResolveInfo">>
             /\ raw_data = EmptyDict /\ sections = EmptyDict /\ written = EmptyDict
       /\ Batch =>
             /\ DOMAIN results = {communes[i].commune_id : i \in 1..(idx - 1)}
             /\ \A path \in files : \E i \in 1..idx : path[2] = communes[i].commune_id

\* the second municipality of a batch has run its six steps and is Done
C2_Witness ==
    /\ Batch /\ pc = "commune" /\ idx = 2
    /\ step = "Done" /\ trace = StepOrder

\* C3: in a batch run with the warehouse unreachable throughout, no
\* exception leaves generate().
C3_OutageIsCounted == (Batch /\ outage) => pc # "crashed"

\* C4: when a single warehouse query fails, the extraction of the
\* municipality does not end with an exception.
C4_QueryFailureContained ==
    (pc = "commune" /\ Cardinality(faults) = 1 /\ trace = <<"ResolveInfo", "ExtractAll">>)
        => exc = ""

C6_MalformedPeriodIsUnresolvable ==
    (pc = "commune" /\ ~IsEmpty(args.periods)) => exc # "ValueError"

\* C7: in a batch run for a province, every municipality listed belongs to
\* that province, and so does every report written.
C7_OnlyTheProvince ==
    (Batch /\ args.province \in Provinces) =>
       /\ \A c \in Listed : ProvinceOf(c) = args.province
       /\ \A path \in files : ProvinceOf(path[2]) = args.province

\* C14: a report written for a municipality that has demographic data and
\* no real-estate row at the real-estate quarter of the configuration has
\* an empty real_estate_market.municipality_overview.
C14_RequestedQuarterOnly ==
    (/\ pc = "commune" /\ step = "Done"
     /\ ~Raised(get_date_id(data_periods.real_estate_data, {}))
     /\ get_date_id(data_periods.real_estate_data, {}).val # NoDate
     /\ ~HasRows(profile, get_date_id(data_periods.real_estate_data, {}).val)
     /\ written.document.demographics # EmptyDict) =>
        written.document.real_estate_market.municipality_overview = EmptyDict

\* a mapping, as against a number or None
IsMapping(v) == "none" \notin DOMAIN v

\* C15: every report assembled, and every report written, has the keys
\* metadata, real_estate_market, building_development, demographics,
\* economic_indicators, geographical_context and investment_analysis, and
\* the value of each is a mapping, never None.
C15_SevenSections ==
    (pc = "commune" /\ report # EmptyDict) =>
        /\ DOMAIN report = Sections \cup {"metadata"}
        /\ \A k \in DOMAIN report : IsMapping(report[k])
        /\ written # EmptyDict => written.document = report

\* a report was assembled after a query failed in the extraction and a
\* processor raised
C15_Witness ==
    /\ pc = "commune" /\ report # EmptyDict
    /\ faults # {} /\ sections.raised # {}
    /\ \E k \in Sections : report[k] = EmptyDict

\* the text of a report with its generation date blanked
WithoutGeneratedDate(text) ==
    [text EXCEPT !.document.metadata.generated_date = NoText]

\* C13: two runs for the same municipality and options on an unchanged
\* warehouse that both wrote a report wrote it to the same path, and the two
\* reports are the same but for metadata.generated_date.
C13_SameReportTwice ==
    (/\ pc = "done" /\ Has(returned, "first")
     /\ returned.first.success /\ summary.success) =>
        /\ output_path = returned.first.output_path
        /\ files = {output_path}
        /\ WithoutGeneratedDate(written) = WithoutGeneratedDate(returned.first.written)

-----------------------------------------------------------------------------
(***************************************************************************)
(* Properties of the processors called on their own.                       *)
(***************************************************************************)
SubSectionsEmpty(section) == \A k \in DOMAIN section : section[k] = EmptyDict

\* C8: on {}, on records without current_data and on records with an empty
\* current_data, the real-estate, demographics, economics and building
\* processors raise nothing and return sub-sections that are all {}.
C8_NothingToReport ==
    given.shape.current \in {"no_record", "absent", "empty"} =>
       /\ \A p \in DOMAIN returned \ {"investment"} : ~Raised(returned[p])
       /\ Has(returned, "real_estate") => SubSectionsEmpty(returned.real_estate.val)
       /\ Has(returned, "economics") => SubSectionsEmpty(returned.economics.val)
       /\ Has(returned, "building") => SubSectionsEmpty(returned.building.val)
       /\ Has(returned, "demographics") =>
             /\ SubSectionsEmpty(returned.demographics.val.demographics)
             /\ SubSectionsEmpty(returned.demographics.val.geographical_context)

\* C9: with current_data populated and an earlier bucket empty, no
\* processor raises, the investment processor fed with their sections
\* included.
C9_ComparisonUnavailable ==
    (/\ given.shape.current = "populated"
     /\ given.shape.earlier # "populated"
     /\ \A k \in InvestmentInputs : given.investment[k] = "processed")
        => \A p \in DOMAIN returned : ~Raised(returned[p])

\* C10: with each of its four sections {} or None, the investment processor
\* raises nothing and returns its six sub-sections.
C10_InvestmentToleratesMissing ==
    (Has(returned, "investment") /\ given.investment \in [InvestmentInputs -> {"empty", "none"}])
        => /\ ~Raised(returned.investment)
           /\ DOMAIN returned.investment.val =
                 {"affordability_metrics", "rental_market_potential",
                  "target_demographic_analysis", "market_dynamics", "risk_assessment",
                  "comparative_ranking"}

\* the investment processor has returned for two sections None and two {}
C10_Witness ==
    /\ Has(returned, "investment")
    /\ given.investment = [k \in InvestmentInputs |->
                             IF k \in {"real_estate_data", "demographic_data"}
                             THEN "none" ELSE "empty"]
    /\ ~Raised(returned.investment)


-----------------------------------------------------------------------------
(***************************************************************************)
(* Properties of the helpers called on their own.                          *)
(***************************************************************************)
\* C11: calculate_change returns (None, "N/A") exactly when current is None,
\* previous is None or previous is 0; otherwise the change is
\* 100 * (current - previous) / previous and its text begins with "+"
\* exactly when the change is >= 0 and with "-" exactly when it is negative;
\* 110 against 100 gives 10 and "+10,0%".
C11_ChangeOrNotAvailable ==
    (pc = "helpers" /\ Has(returned, "calculate_change")) =>
        LET c == given.current_value
            p == given.previous_value
            r == returned.calculate_change
        IN  IF IsNone(c) \/ IsNone(p) \/ p.num = 0 THEN r = <<None, NA>>
            ELSE /\ ~IsNone(r[1]) /\ r[2] # NA
                 /\ r[1].den > 0
                 /\ r[1].num * p.num = 100 * (c.num - p.num) * r[1].den
                 /\ (Head(r[2]) = "+") <=> ((c.num - p.num) * p.num >= 0)
                 /\ (Head(r[2]) = "-") <=> ((c.num - p.num) * p.num < 0)
                 /\ (c = Num(110) /\ p = Num(100)) =>
                        r = <<Num(10), <<"+", "1", "0", ",", "0", "%">>>>

\* calculate_change has returned a negative change that rounds to zero, with
\* its sign
C11_Witness ==
    /\ pc = "helpers" /\ Has(returned, "calculate_change")
    /\ given.current_value = Num(2999) /\ given.previous_value = Num(3000)
    /\ returned.calculate_change[2] = <<"-", "0", ",", "0", "%">>

\* C12: for a quarter Y-QK and N >= 0 periods back, _get_previous_period
\* returns the quarter with the zero-based index 4*Y + K-1 - N: its year is
\* the index div 4 and its quarter the index mod 4, plus 1, which lies in
\* 1..4; four periods back is the same quarter of the year Y-1.
C12_QuarterIndex ==
    (pc = "helpers" /\ Has(returned, "_get_previous_period")) =>
        LET index == 4 * given.year + (given.quarter - 1) - given.num_periods_back
            r     == returned._get_previous_period
        IN  /\ ~Raised(r)
            /\ (index % 4) + 1 \in 1..4
            /\ r.val = PyStr(index \div 4) \o <<"-", "Q">> \o PyStr((index % 4) + 1)
            /\ given.num_periods_back = 4 =>
                  r.val = PyStr(given.year - 1) \o <<"-", "Q">> \o PyStr(given.quarter)

\* _get_previous_period has gone back over a year boundary with a borrow
C12_Witness ==
    /\ pc = "helpers" /\ Has(returned, "_get_previous_period")
    /\ given.year = 2024 /\ given.quarter = 1 /\ given.num_periods_back = 6
    /\ returned._get_previous_period.val = <<"2", "0", "2", "2", "-", "Q", "3">>

-----------------------------------------------------------------------------
(***************************************************************************)
(* Properties of the JSON utilities.                                       *)
(***************************************************************************)
\* the number that the j-th file holds at a metric path, or None
RECURSIVE ValueAt(_, _)
ValueAt(value, path) ==
    IF path = <<>> THEN (IF value.type = "number" THEN value.value ELSE None)
    ELSE IF value.type = "object" /\ Head(path) \in DOMAIN value.fields
         THEN ValueAt(value.fields[Head(path)], Tail(path))
         ELSE None

\* C16: for each metric path, find_extreme_values reports the smallest and
\* the largest number that the files hold at the path, each with the name
\* of the first file in list order that holds it, min <= max, and None for
\* both when no file holds a number at the path; a file in which another
\* path is missing or leads to no number is counted all the same.
C16_ExtremesOverAllFiles ==
    (pc = "utils" /\ Has(returned, "find_extreme_values")) =>
        \A i \in 1..Len(Metrics) :
            LET at(j)   == ValueAt(load_json(given.files[j], j), Metrics[i])
                holders == {j \in 1..Len(given.files) : ~IsNone(at(j))}
                found   == returned.find_extreme_values[Metrics[i]]
                first(S) == CHOOSE j \in S : \A k \in S : j <= k
            IN  IF holders = {}
                THEN IsNone(found.min.value) /\ IsNone(found.max.value)
                ELSE /\ \A j \in holders : ~RLT(at(j), found.min.value)
                     /\ \A j \in holders : ~RLT(found.max.value, at(j))
                     /\ ~RLT(found.max.value, found.min.value)
                     /\ found.min.commune =
                           CommuneNames[first({j \in holders : at(j) = found.min.value})]
                     /\ found.max.commune =
                           CommuneNames[first({j \in holders : at(j) = found.max.value})]

\* the documents of the files from the j-th on that hold a report, in order
RECURSIVE ReportsFrom(_)
ReportsFrom(j) ==
    IF j > Len(given.files) THEN <<>>
    ELSE (IF given.files[j].content = "report"
          THEN <<Document(given.files[j], j)>> ELSE <<>>) \o ReportsFrom(j + 1)

\* C17: when merge_json_files returns True it has written one document
\* whose communes are the documents of the files that hold a non-empty
\* document, in list order, and whose metadata.source_files is their
\* number, unreadable and empty files being left out; when no file holds
\* one, nothing is written and it returns False.
C17_MergeReadableFiles ==
    (pc = "utils" /\ Has(returned, "merge_json_files")) =>
        LET merged == returned.merge_json_files
        IN  /\ merged.result =>
                  /\ merged.written.communes = ReportsFrom(1)
                  /\ merged.written.metadata.source_files = Len(merged.written.communes)
                  /\ merged.written.communes # <<>>
            /\ ~merged.result => merged.written = EmptyDict
            /\ ReportsFrom(1) = <<>> => ~merged.result

\* two files, the first unreadable, were merged into a document of one report
C17_Witness ==
    /\ pc = "utils" /\ Has(returned, "merge_json_files")
    /\ Len(given.files) = 2 /\ given.files[1].content = "unreadable"
    /\ returned.merge_json_files.result
    /\ returned.merge_json_files.written.metadata.source_files = 1

-----------------------------------------------------------------------------
(***************************************************************************)
(* Properties of the session scopes.                                       *)
(***************************************************************************)
\* how many times `what` was done with a session
RECURSIVE Times(_, _)
Times(done, what) ==
    IF done = <<>> THEN 0
    ELSE (IF Head(done) = what THEN 1 ELSE 0) + Times(Tail(done), what)

\* the sessions of the scopes that have been left
Released == {i \in 1..Len(sessions) : \A k \in 1..Len(frames) : frames[k].session # i}

\* C18: a session whose scope has been left, by the end of the body, a
\* return, a database error or any other exception, was closed exactly
\* once, as the last thing done with it, and was committed or rolled back,
\* one of the two and once, before that; and when the outermost scope has
\* been left no session is open.
C18_CommittedOrRolledBackThenClosed ==
    pc = "sessions" =>
        \A i \in Released :
            /\ sessions[i] # <<>>
            /\ sessions[i][Len(sessions[i])] = "close"
            /\ Times(sessions[i], "close") = 1
            /\ Times(sessions[i], "commit") + Times(sessions[i], "rollback") = 1

-----------------------------------------------------------------------------
(***************************************************************************)
(* Properties of the JSON encoding of decimals.                            *)
(***************************************************************************)
\* C19: the DecimalEncoder that the generator imports from the JSON
\* utilities exists, so the generator is loaded, and a report holding
\* decimal values is written whenever the file system takes the write:
\* a decimal never makes save_json fail.
C19_DecimalsAreWritten ==
    pc = "encoder" =>
        /\ Has(returned, "municipality") => ~Raised(returned.municipality)
        /\ (Has(returned, "save_json") /\ returned.save_json.ok) =>
               /\ returned.save_json.result
               /\ returned.save_json.written = dumps(given.data)

-----------------------------------------------------------------------------
(***************************************************************************)
(* Properties of calculate_median_age.                                     *)
(***************************************************************************)
\* the population of an age of the distribution given: its sexes summed
PopulationAt(a) == SumPopulation(Get(given.ages_data[a], "sexes", EmptyDict))

\* the ages of the distribution given that are numbers
AgesGiven == {a \in DOMAIN given.ages_data : isdigit(a)}

RECURSIVE PopulationOf(_)
PopulationOf(ages) ==
    IF ages = {} THEN 0
    ELSE LET a == CHOOSE x \in ages : TRUE
         IN  PopulationAt(a) + PopulationOf(ages \ {a})

\* the population of the ages up to and including a
CumulativeAt(a) == PopulationOf({b \in AgesGiven : DigitsToInt(b) <= DigitsToInt(a)})

\* the ages at which the cumulative population is at least half of the total
HalfReached == {a \in AgesGiven : 2 * CumulativeAt(a) >= given.total_population}

\* C20: calculate_median_age returns the smallest age at which the
\* cumulative population, the sexes summed over the ages up to and
\* including it, is at least half of the total population passed in, and
\* None when the distribution is empty, the total is not positive or the
\* cumulative population never reaches half of the total.
C20_MedianAge ==
    (pc = "helpers" /\ Has(returned, "calculate_median_age")) =>
        IF given.total_population <= 0 \/ HalfReached = {}
        THEN IsNone(returned.calculate_median_age)
        ELSE \E a \in HalfReached :
                /\ \A b \in HalfReached : DigitsToInt(a) <= DigitsToInt(b)
                /\ returned.calculate_median_age = Num(DigitsToInt(a))

\* ages 30: 100 and 70: 50 with a total of 150 give 30
C20_Witness ==
    /\ pc = "helpers" /\ Has(returned, "calculate_median_age")
    /\ DOMAIN given.ages_data = {<<"3", "0">>, <<"7", "0">>}
    /\ PopulationAt(<<"3", "0">>) = 100 /\ PopulationAt(<<"7", "0">>) = 50
    /\ given.total_population = 150
    /\ returned.calculate_median_age = Num(30)

-----------------------------------------------------------------------------
(***************************************************************************)
(* Properties of process_age_structure.                                    *)
(***************************************************************************)
\* the count of a band in what process_age_structure returned
CountOf(band) == returned.process_age_structure.age_groups[band].count

\* C21: the counts of the four bands add up to the total of the per-age
\* and per-sex populations of the distribution given, every exact age
\* being counted in one band, over_65 holding the ages from 66 on; the
\* dependency ratio is (under_18 + over_65) / (18_to_35 + 36_to_65), and
\* None exactly when the working-age count is 0.
C21_EveryAgeInOneBand ==
    (pc = "helpers" /\ Has(returned, "process_age_structure")) =>
        LET dependent == RAdd(CountOf("under_18"), CountOf("over_65"))
            working   == RAdd(CountOf("18_to_35"), CountOf("36_to_65"))
            ratio     == returned.process_age_structure.dependency_ratio
        IN  /\ RAdd(dependent, working) = Num(PopulationOf(AgesGiven))
            /\ CountOf("over_65")
                 = Num(PopulationOf({a \in AgesGiven : DigitsToInt(a) >= 66}))
            /\ IsNone(ratio) <=> working = Num(0)
            /\ ~IsNone(ratio) => ratio = RDiv(dependent, working)

-----------------------------------------------------------------------------
(***************************************************************************)
(* Properties of classify_trend.                                           *)
(***************************************************************************)
\* the five labels, from the strongest decrease to the strongest increase
TrendLabels == <<"strong_decrease", "decrease", "stable", "increase", "strong_increase">>

TrendRank(label) == CHOOSE i \in 1..Len(TrendLabels) : TrendLabels[i] = label

\* C22: with the thresholds (+10, -5) a change of +10% or more is a
\* strong_increase and a change of -5% or less a strong_decrease; a change
\* that is not None gets one of the five labels, and of two changes the
\* larger one never gets the lower label.
C22_TrendLabels ==
    (pc = "helpers" /\ Has(returned, "classify_trend")
     /\ given.threshold_positive = 10 /\ given.threshold_negative = 0 - 5
     /\ ~IsNone(given.first) /\ ~IsNone(given.second)) =>
        LET labels == returned.classify_trend
        IN  /\ GE(given.first, 10) => labels.first = "strong_increase"
            /\ LE(given.first, 0 - 5) => labels.first = "strong_decrease"
            /\ \E i \in 1..Len(TrendLabels) : TrendLabels[i] = labels.first
            /\ ~RGT(given.first, given.second)
                  => TrendRank(labels.first) <= TrendRank(labels.second)


-----------------------------------------------------------------------------
(***************************************************************************)
(* Properties of the rental growth potential.                              *)
(***************************************************************************)
\* C23: the rental demand index is labelled by bands: Strong above 0.7,
\* Good above 0.6, Very weak below 0.3, Weak below 0.4 and Moderate
\* otherwise; every index below 0.3 is labelled Very weak.
C23_FiveDemandLabels ==
    (pc = "helpers" /\ Has(returned, "rental_growth_potential")) =>
        LET index == given.rental_demand_index
            label == returned.rental_growth_potential
        IN  /\ RGT(index, Rat(7, 10)) => label = "Strong"
            /\ (RGT(index, Rat(6, 10)) /\ ~RGT(index, Rat(7, 10))) => label = "Good"
            /\ RGT(Rat(3, 10), index) => label = "Very weak"
            /\ (RGT(Rat(4, 10), index) /\ ~RGT(Rat(3, 10), index)) => label = "Weak"
            /\ (~RGT(index, Rat(6, 10)) /\ ~RGT(Rat(4, 10), index)) => label = "Moderate"

-----------------------------------------------------------------------------
(***************************************************************************)
(* Properties of process_construction_activity.                            *)
(***************************************************************************)
\* C24: the construction intensity index is 0.5, plus 0.2 for a permit
\* growth above 20 and 0.1 above 10, minus 0.2 for a growth below -20 and
\* 0.1 below -10, plus 0.1 for more than 100 new dwellings and 0.05 for
\* more than 50; the phase is Strong Growth above 0.8, Moderate Growth
\* above 0.6, Stagnation below 0.2, Slowdown below 0.4 and Stable
\* otherwise.
C24_IntensityIndex ==
    (pc = "helpers" /\ Has(returned, "process_construction_activity")) =>
        LET growth == IF given.trend_yoy > 20 THEN Rat(2, 10)
                      ELSE IF given.trend_yoy > 10 THEN Rat(1, 10)
                      ELSE IF given.trend_yoy < 0 - 20 THEN Rat(0 - 2, 10)
                      ELSE IF given.trend_yoy < 0 - 10 THEN Rat(0 - 1, 10)
                      ELSE Num(0)
            volume == IF given.dwellings > 100 THEN Rat(1, 10)
                      ELSE IF given.dwellings > 50 THEN Rat(5, 100)
                      ELSE Num(0)
            index  == RAdd(Rat(1, 2), RAdd(growth, volume))
            phase  == IF RGT(index, Rat(8, 10)) THEN "Strong Growth"
                      ELSE IF RGT(index, Rat(6, 10)) THEN "Moderate Growth"
                      ELSE IF RGT(Rat(2, 10), index) THEN "Stagnation"
                      ELSE IF RGT(Rat(4, 10), index) THEN "Slowdown"
                      ELSE "Stable"
            activity == returned.process_construction_activity
        IN  /\ ~Raised(activity)
            /\ activity.val.construction_intensity_index = index
            /\ activity.val.development_phase = phase

-----------------------------------------------------------------------------
(***************************************************************************)
(* Properties of process_risk_assessment.                                  *)
(***************************************************************************)
\* the liquidity score stated for a number of transactions and a change
StatedLiquidity(transactions, transaction_change) ==
    50 + (IF transactions > 100 THEN 20
          ELSE IF transactions > 50 THEN 10
          ELSE IF transactions < 10 THEN 0 - 20
          ELSE IF transactions < 20 THEN 0 - 10
          ELSE 0)
       + (IF transaction_change > 10 THEN 10
          ELSE IF transaction_change > 5 THEN 5
          ELSE IF transaction_change < 0 - 10 THEN 0 - 10
          ELSE IF transaction_change < 0 - 5 THEN 0 - 5
          ELSE 0)

\* C25: the liquidity score is 50, plus 20 above 100 transactions and 10
\* above 50, minus 20 below 10 and 10 below 20, plus 10 for a change of
\* the transactions above 10% and 5 above 5%, minus 10 below -10% and 5
\* below -5%; it lies within 0..100, and fewer than 10 transactions give
\* a lower score than 10 to 19 transactions with the same change.
C25_LiquidityScore ==
    (pc = "helpers" /\ Has(returned, "process_risk_assessment")) =>
        LET risk == returned.process_risk_assessment
        IN  /\ ~Raised(risk)
            /\ risk.val.liquidity_score \in 0..100
            /\ risk.val.liquidity_score
                 = StatedLiquidity(given.transactions, given.transaction_change)
            /\ given.transactions < 10 =>
                 risk.val.liquidity_score
                   < process_risk_assessment(OverviewWith(10, given.transaction_change),
                                             EmptyDict, EmptyDict).val.liquidity_score

-----------------------------------------------------------------------------
(***************************************************************************)
(* Properties of the household composition of a report.                    *)
(***************************************************************************)
\* the household composition extracted for the current municipality
ExtractedHouseholds ==
    Get(Get(raw_data, "demographics", EmptyDict), "household_composition", EmptyDict)

\* C26: when the household composition extracted for a municipality is
\* the regional one scaled to its population, marked is_estimated, the
\* household_composition section of the report written carries the mark.
C26_EstimateIsFlagged ==
    (/\ pc = "commune" /\ step = "Done"
     /\ Has(ExtractedHouseholds, "is_estimated") /\ ExtractedHouseholds.is_estimated) =>
        LET section == written.document.demographics.household_composition
        IN  Has(section, "is_estimated") /\ section.is_estimated

-----------------------------------------------------------------------------
(***************************************************************************)
(* Properties of the periods derived from the configured periods.          *)
(***************************************************************************)
\* YYYY-QN is a quarter; any other period is read as a year
Granularity(period) ==
    IF Contains(period, "-") /\ Slice(period, 5, 6) = <<"Q">> THEN "quarter" ELSE "year"

\* the building stock extracted for the current municipality
ExtractedBuildingStock ==
    Get(Get(raw_data, "real_estate", EmptyDict), "building_stock", EmptyDict)

\* the permit counts extracted for the current municipality
ExtractedPermitsCounts ==
    Get(Get(raw_data, "building", EmptyDict), "permits_counts", EmptyDict)

\* C27: the periods that the extractors and the metadata derive from a
\* configured period have its granularity: once the building stock is
\* extracted, the periods extract_building_stock resolved are quarters when
\* the real estate period is one and years when it is a year; the same holds
\* of the previous period of the permits and of the periods of the metadata.
C27_DerivedPeriodsKeepGranularity ==
    /\ (pc = "commune" /\ Has(ExtractedBuildingStock, "current_data")) =>
          LET derived == building_stock_periods(data_periods.real_estate_data)
          IN  /\ Granularity(derived.year_period)
                    = Granularity(data_periods.real_estate_data)
              /\ Granularity(derived.five_year_ago.val)
                    = Granularity(data_periods.real_estate_data)
    /\ (pc = "commune" /\ Has(ExtractedPermitsCounts, "current_data")) =>
          Granularity(previous_year_period_of(data_periods.construction_data))
            = Granularity(data_periods.construction_data)
    /\ (pc = "commune" /\ Has(report, "metadata")) =>
          \A k \in DOMAIN report.metadata.data_period :
              /\ Granularity(report.metadata.data_period[k].previous_year)
                    = Granularity(report.metadata.data_period[k].current)
              /\ Granularity(report.metadata.data_period[k].five_year)
                    = Granularity(report.metadata.data_period[k].current)

-----------------------------------------------------------------------------
(***************************************************************************)
(* Properties of the age structure of a report.                            *)
(***************************************************************************)
\* the population of the current period extracted for the current municipality
ExtractedPopulation ==
    Get(Get(Get(raw_data, "demographics", EmptyDict), "population_structure", EmptyDict),
        "current_data", EmptyDict)

\* C28: when the population extracted for a municipality is positive and
\* comes with its populations per age, the age structure of the report
\* written counts people in some band and has a median age.
C28_AgeBandsAreFilled ==
    (/\ pc = "commune" /\ step = "Done"
     /\ GT(Get(ExtractedPopulation, "total_population", None), 0)
     /\ ~IsEmpty(Get(ExtractedPopulation, "age_groups", EmptyDict))) =>
        LET age_structure == written.document.demographics.age_structure
        IN  /\ \E g \in DOMAIN age_structure.age_groups :
                   GT(age_structure.age_groups[g].count, 0)
            /\ age_structure.median_age # None

-----------------------------------------------------------------------------
(***************************************************************************)
(* Properties of the unemployment figures of a report.                     *)
(***************************************************************************)
\* the unemployment extracted for the current municipality
ExtractedUnemployment ==
    Get(Get(raw_data, "economics", EmptyDict), "unemployment", EmptyDict)

\* the bucket of the municipality itself in one period of it
CommuneBucket(period_key) ==
    Get(Get(ExtractedUnemployment, period_key, EmptyDict), "commune", EmptyDict)

\* C29: when the unemployment rate r of the municipality was extracted and
\* the economics processor did not raise, the report written gives r as
\* economic_indicators.unemployment.overall_rate, and as trend_yoy r less
\* the rate of the municipality the year before when that one was extracted
\* and is not 0.
C29_CommuneRateIsReported ==
    (/\ pc = "commune" /\ step = "Done"
     /\ "economics" \notin sections.raised
     /\ Has(CommuneBucket("current_data"), "overall_rate")) =>
        LET unemployment == written.document.economic_indicators.unemployment
            r == CommuneBucket("current_data").overall_rate
            previous == Get(CommuneBucket("previous_year_data"), "overall_rate", Num(0))
        IN  /\ unemployment.overall_rate = r
            /\ Truthy(previous) => unemployment.trend_yoy = RSub(r, previous)

-----------------------------------------------------------------------------
(***************************************************************************)
(* Properties of the files of the output directory.                        *)
(***************************************************************************)
\* C30: when a report was written for a municipality by an earlier run and
\* generate_for_commune returns False for it in a later run, whatever the
\* step that failed, the file of the earlier report holds the text that the
\* earlier run wrote.
C30_FailureLeavesTheReport ==
    (/\ pc = "commune" /\ step = "Failed"
     /\ Has(returned, "first") /\ returned.first.success) =>
        /\ Has(disk, returned.first.output_path)
        /\ disk[returned.first.output_path] = returned.first.written
=============================================================================
